---- MODULE Spec2Model ----
(***************************************************************************)
(* The search pipeline of the Plex MCP server: the free-text Extractor     *)
(* (parseNaturalLanguageQuery), the two tool handlers (smartSearch,        *)
(* advancedSearch) and the query Compiler (PlexApiClient.advancedSearch).  *)
(* Text is a sequence of one-character strings, so that substring and      *)
(* regular-expression matching are computed character by character.  An    *)
(* optional value (a JavaScript property that may be undefined) is a       *)
(* sequence of length 0 (undefined) or 1 (the value).                       *)
(***************************************************************************)
EXTENDS Integers, Sequences, FiniteSets, TLC

VARIABLES pc, tool, args, query, extracted, filters, consulted, sections,
          sectionId, params, request, clock, response, earlier

vars == <<pc, tool, args, query, extracted, filters, consulted, sections,
          sectionId, params, request, clock, response, earlier>>

----------------------------------------------------------------------------
(* Characters and strings *)

Undefined == <<>>

Some(v) == <<v>>

Digits == {"0", "1", "2", "3", "4", "5", "6", "7", "8", "9"}

UpperCase == <<"A", "B", "C", "D", "E", "F", "G", "H", "I", "J", "K", "L", "M",
               "N", "O", "P", "Q", "R", "S", "T", "U", "V", "W", "X", "Y", "Z">>

LowerCase == <<"a", "b", "c", "d", "e", "f", "g", "h", "i", "j", "k", "l", "m",
               "n", "o", "p", "q", "r", "s", "t", "u", "v", "w", "x", "y", "z">>

Range(f) == {f[i] : i \in DOMAIN f}

Min(S) == CHOOSE i \in S : \A j \in S : i <= j

DigitVal(c) ==
  CASE c = "0" -> 0 [] c = "1" -> 1 [] c = "2" -> 2 [] c = "3" -> 3
    [] c = "4" -> 4 [] c = "5" -> 5 [] c = "6" -> 6 [] c = "7" -> 7
    [] c = "8" -> 8 [] c = "9" -> 9

\* the character at position i of s, "" past either end
At(s, i) == IF i \in 1..Len(s) THEN s[i] ELSE ""

IsDigit(c) == c \in Digits

\* \s of the regular expressions
IsSpace(c) == c = " "

\* \w of the regular expressions
IsWordChar(c) == c \in Range(LowerCase) \cup Range(UpperCase) \cup Digits \cup {"_"}

\* the lower-case letter of each upper-case letter
LowerOfUpper == [c \in Range(UpperCase) |-> LowerCase[CHOOSE i \in 1..26 : UpperCase[i] = c]]

LowerOf(c) == IF c \in DOMAIN LowerOfUpper THEN LowerOfUpper[c] ELSE c

RECURSIVE toLowerCase(_)
toLowerCase(s) ==
  IF s = <<>> THEN <<>> ELSE <<LowerOf(Head(s))>> \o toLowerCase(Tail(s))

\* the pattern p stands in s at position i
StartsAt(s, i, p) ==
  /\ i >= 1
  /\ i + Len(p) - 1 <= Len(s)
  /\ \A k \in 1..Len(p) : s[i + k - 1] = p[k]

includes(s, p) == \E i \in 1..(Len(s) - Len(p) + 1) : StartsAt(s, i, p)

\* String.prototype.replace with string arguments: the first occurrence only
replace(s, a, b) ==
  IF includes(s, a)
    THEN LET i == Min({j \in 1..Len(s) : StartsAt(s, j, a)})
         IN  SubSeq(s, 1, i - 1) \o b \o SubSeq(s, i + Len(a), Len(s))
    ELSE s

\* the first position at or after i that holds no whitespace (\s*)
SkipSpaces(s, i) ==
  Min({j \in i..(Len(s) + 1) : ~IsSpace(At(s, j))})

\* the first position at or after i that holds no digit (\d*)
SkipDigits(s, i) ==
  Min({j \in i..(Len(s) + 1) : ~IsDigit(At(s, j))})

\* parseInt of a string of digits
parseInt(cs) ==
  LET acc[k \in 0..Len(cs)] ==
        IF k = 0 THEN 0 ELSE acc[k - 1] * 10 + DigitVal(cs[k])
  IN  acc[Len(cs)]

\* A number with a fractional part, as parseFloat returns it: the whole part
\* and the fraction digits without trailing zeros (7, 7.0 and 7.00 are equal).
RECURSIVE StripZeros(_)
StripZeros(ds) ==
  IF ds # <<>> /\ ds[Len(ds)] = "0" THEN StripZeros(SubSeq(ds, 1, Len(ds) - 1))
  ELSE ds

Num(w, fr) == [whole |-> w, frac |-> StripZeros(fr)]

\* parseFloat of a capture \d+(?:\.\d+)?
parseFloat(cs) ==
  LET e == SkipDigits(cs, 1)
  IN  Num(parseInt(SubSeq(cs, 1, e - 1)), SubSeq(cs, e + 1, Len(cs)))

----------------------------------------------------------------------------
(* The regular expressions of the Extractor.  Each returns Undefined when  *)
(* the text has no match, and otherwise the capture groups of the leftmost *)
(* match, as String.prototype.match does.                                   *)

Leftmost(S) == IF S = {} THEN 0 ELSE Min(S)

\* /(\d{2})s(?:\s|$)/
DecadeAt(s, i) ==
  /\ IsDigit(At(s, i))
  /\ IsDigit(At(s, i + 1))
  /\ At(s, i + 2) = "s"
  /\ (i + 3 > Len(s) \/ IsSpace(At(s, i + 3)))

decadeMatch(s) ==
  LET i == Leftmost({j \in 1..Len(s) : DecadeAt(s, j)})
  IN  IF i = 0 THEN Undefined ELSE Some(SubSeq(s, i, i + 1))

\* /<word>\s+(\d{4})/ for the words from, before and after
WordYearAt(s, i, w) ==
  /\ StartsAt(s, i, w)
  /\ IsSpace(At(s, i + Len(w)))
  /\ LET d == SkipSpaces(s, i + Len(w))
     IN  \A k \in 0..3 : IsDigit(At(s, d + k))

WordYearMatch(s, w) ==
  LET i == Leftmost({j \in 1..Len(s) : WordYearAt(s, j, w)})
  IN  IF i = 0 THEN Undefined
      ELSE LET d == SkipSpaces(s, i + Len(w)) IN Some(SubSeq(s, d, d + 3))

\* /from\s+(\d{4})/
yearMatch(s) == WordYearMatch(s, <<"f", "r", "o", "m">>)

\* /before\s+(\d{4})/
beforeMatch(s) == WordYearMatch(s, <<"b", "e", "f", "o", "r", "e">>)

\* /after\s+(\d{4})/
afterMatch(s) == WordYearMatch(s, <<"a", "f", "t", "e", "r">>)

\* /\b(19\d{2}|20[0-2]\d)\b/
ExactYearAt(s, i) ==
  /\ \/ /\ StartsAt(s, i, <<"1", "9">>)
        /\ IsDigit(At(s, i + 2))
        /\ IsDigit(At(s, i + 3))
     \/ /\ StartsAt(s, i, <<"2", "0">>)
        /\ At(s, i + 2) \in {"0", "1", "2"}
        /\ IsDigit(At(s, i + 3))
  /\ ~IsWordChar(At(s, i - 1))
  /\ ~IsWordChar(At(s, i + 4))

exactYearMatch(s) ==
  LET i == Leftmost({j \in 1..Len(s) : ExactYearAt(s, j)})
  IN  IF i = 0 THEN Undefined ELSE Some(SubSeq(s, i, i + 3))

\* the end of a capture \d+(?:\.\d+)? that starts at position d
DecimalEnd(s, d) ==
  LET e == SkipDigits(s, d)
  IN  IF At(s, e) = "." /\ IsDigit(At(s, e + 1)) THEN SkipDigits(s, e + 1) ELSE e

\* /(?:rated?|rating)\s*(?:<cmp>)\s*(\d+(?:\.\d+)?)/ : the positions at which
\* the capture may start for a match that begins at position i
RatingHeads == {<<"r", "a", "t", "e", "d">>, <<"r", "a", "t", "e">>, <<"r", "a", "t", "i", "n", "g">>}

RatingStarts(s, i, cmps) ==
  {SkipSpaces(s, SkipSpaces(s, i + Len(y[1])) + Len(y[2])) :
     y \in {z \in RatingHeads \X cmps :
              /\ StartsAt(s, i, z[1])
              /\ StartsAt(s, SkipSpaces(s, i + Len(z[1])), z[2])}}

RatingMatch(s, cmps) ==
  LET ok(j) == \E d \in RatingStarts(s, j, cmps) : IsDigit(At(s, d))
      i == Leftmost({j \in 1..Len(s) : ok(j)})
  IN  IF i = 0 THEN Undefined
      ELSE LET d == Min({x \in RatingStarts(s, i, cmps) : IsDigit(At(s, x))})
           IN  Some(SubSeq(s, d, DecimalEnd(s, d) - 1))

\* /(?:rated?|rating)\s*(?:above|over|>|greater than)\s*(\d+(?:\.\d+)?)/
ratingAboveMatch(s) ==
  RatingMatch(s, {<<"a", "b", "o", "v", "e">>, <<"o", "v", "e", "r">>, <<">">>, <<"g", "r", "e", "a", "t", "e", "r", " ", "t", "h", "a", "n">>})

\* /(?:rated?|rating)\s*(?:below|under|<|less than)\s*(\d+(?:\.\d+)?)/
ratingBelowMatch(s) ==
  RatingMatch(s, {<<"b", "e", "l", "o", "w">>, <<"u", "n", "d", "e", "r">>, <<"<">>, <<"l", "e", "s", "s", " ", "t", "h", "a", "n">>})

\* /<word>\s+(\d+)\s*(?:min|hour)/ for the words under and over
AmountAt(s, i, w) ==
  /\ StartsAt(s, i, w)
  /\ IsSpace(At(s, i + Len(w)))
  /\ LET d == SkipSpaces(s, i + Len(w))
         u == SkipSpaces(s, SkipDigits(s, d))
     IN  /\ IsDigit(At(s, d))
         /\ (StartsAt(s, u, <<"m", "i", "n">>) \/ StartsAt(s, u, <<"h", "o", "u", "r">>))

\* /<plain>|<word>\s+(\d+)\s*(?:min|hour)/ : the capture is the empty string
\* (undefined) when the leftmost match is the plain word
DurationMatch(s, plain, w) ==
  LET i == Leftmost({j \in 1..Len(s) : StartsAt(s, j, plain) \/ AmountAt(s, j, w)})
  IN  IF i = 0 THEN Undefined
      ELSE IF StartsAt(s, i, plain) THEN Some(<<>>)
      ELSE LET d == SkipSpaces(s, i + Len(w))
           IN  Some(SubSeq(s, d, SkipDigits(s, d) - 1))

\* /short|under\s+(\d+)\s*(?:min|hour)/
shortMatch(s) == DurationMatch(s, <<"s", "h", "o", "r", "t">>, <<"u", "n", "d", "e", "r">>)

\* /long|over\s+(\d+)\s*(?:min|hour)/
longMatch(s) == DurationMatch(s, <<"l", "o", "n", "g">>, <<"o", "v", "e", "r">>)

\* an optional group (?:<w>)? at position i: the position after it
Optional(s, i, ws) ==
  IF \E w \in ws : StartsAt(s, i, w)
    THEN i + Len(CHOOSE w \in ws : StartsAt(s, i, w))
    ELSE i

\* /(?:added|new)\s*(?:in\s*)?(?:the\s*)?(?:last|past)?\s*(\d+)?\s*(day|week|month)/
\* the position of the count for a match that begins with the word w at i
RecentCountPos(s, i, w) ==
  LET a == SkipSpaces(s, i + Len(w))
      b == SkipSpaces(s, Optional(s, a, {<<"i", "n">>}))
      c == SkipSpaces(s, Optional(s, b, {<<"t", "h", "e">>}))
  IN  SkipSpaces(s, Optional(s, c, {<<"l", "a", "s", "t">>, <<"p", "a", "s", "t">>}))

RecentUnits == {<<"d", "a", "y">>, <<"w", "e", "e", "k">>, <<"m", "o", "n", "t", "h">>}

RecentAt(s, i, w) ==
  /\ StartsAt(s, i, w)
  /\ LET u == SkipSpaces(s, SkipDigits(s, RecentCountPos(s, i, w)))
     IN  \E unit \in RecentUnits : StartsAt(s, u, unit)

recentMatch(s) ==
  LET heads == {<<"a", "d", "d", "e", "d">>, <<"n", "e", "w">>}
      i == Leftmost({j \in 1..Len(s) : \E w \in heads : RecentAt(s, j, w)})
  IN  IF i = 0 THEN Undefined
      ELSE LET w == CHOOSE h \in heads : RecentAt(s, i, h)
               d == RecentCountPos(s, i, w)
               u == SkipSpaces(s, SkipDigits(s, d))
           IN  <<SubSeq(s, d, SkipDigits(s, d) - 1),
                 CHOOSE unit \in RecentUnits : StartsAt(s, u, unit)>>

----------------------------------------------------------------------------
(* The Extractor: parseNaturalLanguageQuery *)

FilterFields ==
  {"type", "sectionId", "title", "year", "minYear", "maxYear", "decade",
   "genre", "contentRating", "minRating", "maxRating", "director", "actor",
   "studio", "unwatched", "watched", "inProgress", "minDuration",
   "maxDuration", "addedWithin", "resolution", "limit", "sort", "sortOrder"}

\* const filters = {}
NoFilters == [f \in FilterFields |-> Undefined]

AnyOf(s, ps) == \E p \in ps : includes(s, p)

\* Detect media type
DetectMediaType(lowerQuery) ==
  IF AnyOf(lowerQuery, {<<"m", "o", "v", "i", "e">>, <<"f", "i", "l", "m">>}) THEN Some("movie")
  ELSE IF AnyOf(lowerQuery, {<<"s", "h", "o", "w">>, <<"s", "e", "r", "i", "e", "s">>, <<"t", "v">>}) THEN Some("show")
  ELSE IF includes(lowerQuery, <<"e", "p", "i", "s", "o", "d", "e">>) THEN Some("episode")
  ELSE Undefined

\* WatchStatus with the else of the second test dropped
WatchStatusNoElse(lowerQuery) ==
  LET un == AnyOf(lowerQuery, {<<"u", "n", "w", "a", "t", "c", "h", "e", "d">>, <<"n", "o", "t", " ", "w", "a", "t", "c", "h", "e", "d">>, <<"h", "a", "v", "e", "n", "'", "t", " ", "w", "a", "t", "c", "h", "e", "d">>})
      wa == includes(lowerQuery, <<"w", "a", "t", "c", "h", "e", "d">>) /\ ~includes(lowerQuery, <<"u", "n", "w", "a", "t", "c", "h", "e", "d">>)
      ip == AnyOf(lowerQuery, {<<"i", "n", " ", "p", "r", "o", "g", "r", "e", "s", "s">>, <<"c", "o", "n", "t", "i", "n", "u", "e">>, <<"s", "t", "a", "r", "t", "e", "d">>})
  IN  [unwatched  |-> IF un THEN Some(TRUE) ELSE Undefined,
       watched    |-> IF wa THEN Some(TRUE) ELSE Undefined,
       inProgress |-> IF ip THEN Some(TRUE) ELSE Undefined]

\* Watch status
WatchStatus(lowerQuery) ==
  LET un == AnyOf(lowerQuery, {<<"u", "n", "w", "a", "t", "c", "h", "e", "d">>, <<"n", "o", "t", " ", "w", "a", "t", "c", "h", "e", "d">>, <<"h", "a", "v", "e", "n", "'", "t", " ", "w", "a", "t", "c", "h", "e", "d">>})
      wa == includes(lowerQuery, <<"w", "a", "t", "c", "h", "e", "d">>) /\ ~includes(lowerQuery, <<"u", "n", "w", "a", "t", "c", "h", "e", "d">>)
      ip == AnyOf(lowerQuery, {<<"i", "n", " ", "p", "r", "o", "g", "r", "e", "s", "s">>, <<"c", "o", "n", "t", "i", "n", "u", "e">>, <<"s", "t", "a", "r", "t", "e", "d">>})
  IN  [unwatched  |-> IF un THEN Some(TRUE) ELSE Undefined,
       watched    |-> IF ~un /\ wa THEN Some(TRUE) ELSE Undefined,
       inProgress |-> IF ip THEN Some(TRUE) ELSE Undefined]

\* DecadeOf taking the two digits for the years of the twentieth century
DecadeOfCentury(twoDigits) ==
  IF twoDigits < 30 THEN 2000 + twoDigits ELSE 1900 + twoDigits

\* Decades and years
DecadeOf(twoDigits) ==
  IF twoDigits < 30 THEN 2000 + twoDigits * 10 ELSE 1900 + twoDigits * 10

\* YearSignals with the bounds of "before" and "after" taken inclusive
YearSignalsInclusive(lowerQuery) ==
  LET dm == decadeMatch(lowerQuery)
      ym == yearMatch(lowerQuery)
      em == exactYearMatch(lowerQuery)
      bm == beforeMatch(lowerQuery)
      am == afterMatch(lowerQuery)
  IN  [decade  |-> IF dm # Undefined THEN Some(DecadeOf(parseInt(dm[1])))
                   ELSE Undefined,
       minYear |-> IF am # Undefined THEN Some(parseInt(am[1]))
                   ELSE IF ym # Undefined THEN Some(parseInt(ym[1]))
                   ELSE Undefined,
       year    |-> IF em # Undefined /\ dm = Undefined /\ ym = Undefined
                     THEN Some(parseInt(em[1]))
                   ELSE Undefined,
       maxYear |-> IF bm # Undefined THEN Some(parseInt(bm[1]))
                   ELSE Undefined]

\* YearSignals taking the bare year whatever else matched
YearSignalsUnguarded(lowerQuery) ==
  LET dm == decadeMatch(lowerQuery)
      ym == yearMatch(lowerQuery)
      em == exactYearMatch(lowerQuery)
      bm == beforeMatch(lowerQuery)
      am == afterMatch(lowerQuery)
  IN  [decade  |-> IF dm # Undefined THEN Some(DecadeOf(parseInt(dm[1])))
                   ELSE Undefined,
       minYear |-> IF am # Undefined THEN Some(parseInt(am[1]) + 1)
                   ELSE IF ym # Undefined THEN Some(parseInt(ym[1]))
                   ELSE Undefined,
       year    |-> IF em # Undefined THEN Some(parseInt(em[1])) ELSE Undefined,
       maxYear |-> IF bm # Undefined THEN Some(parseInt(bm[1]) - 1)
                   ELSE Undefined]

\* YearSignals with the bare year suppressed by "before" and "after" as well
YearSignalsBoundOnly(lowerQuery) ==
  LET dm == decadeMatch(lowerQuery)
      ym == yearMatch(lowerQuery)
      em == exactYearMatch(lowerQuery)
      bm == beforeMatch(lowerQuery)
      am == afterMatch(lowerQuery)
  IN  [decade  |-> IF dm # Undefined THEN Some(DecadeOf(parseInt(dm[1])))
                   ELSE Undefined,
       minYear |-> IF am # Undefined THEN Some(parseInt(am[1]) + 1)
                   ELSE IF ym # Undefined THEN Some(parseInt(ym[1]))
                   ELSE Undefined,
       year    |-> IF /\ em # Undefined /\ dm = Undefined /\ ym = Undefined
                      /\ bm = Undefined /\ am = Undefined
                     THEN Some(parseInt(em[1]))
                   ELSE Undefined,
       maxYear |-> IF bm # Undefined THEN Some(parseInt(bm[1]) - 1)
                   ELSE Undefined]

\* YearSignals with "from" taking precedence over "after"
YearSignalsFromWins(lowerQuery) ==
  LET dm == decadeMatch(lowerQuery)
      ym == yearMatch(lowerQuery)
      em == exactYearMatch(lowerQuery)
      bm == beforeMatch(lowerQuery)
      am == afterMatch(lowerQuery)
  IN  [decade  |-> IF dm # Undefined THEN Some(DecadeOf(parseInt(dm[1])))
                   ELSE Undefined,
       minYear |-> IF ym # Undefined THEN Some(parseInt(ym[1]))
                   ELSE IF am # Undefined THEN Some(parseInt(am[1]) + 1)
                   ELSE Undefined,
       year    |-> IF em # Undefined /\ dm = Undefined /\ ym = Undefined
                     THEN Some(parseInt(em[1]))
                   ELSE Undefined,
       maxYear |-> IF bm # Undefined THEN Some(parseInt(bm[1]) - 1)
                   ELSE Undefined]

YearSignals(lowerQuery) ==
  LET dm == decadeMatch(lowerQuery)
      ym == yearMatch(lowerQuery)
      em == exactYearMatch(lowerQuery)
      bm == beforeMatch(lowerQuery)
      am == afterMatch(lowerQuery)
  IN  [decade  |-> IF dm # Undefined THEN Some(DecadeOf(parseInt(dm[1])))
                   ELSE Undefined,
       minYear |-> IF am # Undefined THEN Some(parseInt(am[1]) + 1)
                   ELSE IF ym # Undefined THEN Some(parseInt(ym[1]))
                   ELSE Undefined,
       year    |-> IF em # Undefined /\ dm = Undefined /\ ym = Undefined
                     THEN Some(parseInt(em[1]))
                   ELSE Undefined,
       maxYear |-> IF bm # Undefined THEN Some(parseInt(bm[1]) - 1)
                   ELSE Undefined]

\* Ratings
Ratings(lowerQuery) ==
  LET above == ratingAboveMatch(lowerQuery)
      below == ratingBelowMatch(lowerQuery)
  IN  [minRating |-> IF above # Undefined THEN Some(parseFloat(above[1]))
                     ELSE Undefined,
       maxRating |-> IF below # Undefined THEN Some(parseFloat(below[1]))
                     ELSE Undefined]

\* Genres (common ones)
genres ==
  <<<<"a", "c", "t", "i", "o", "n">>, <<"a", "d", "v", "e", "n", "t", "u", "r", "e">>, <<"a", "n", "i", "m", "a", "t", "i", "o", "n">>, <<"a", "n", "i", "m", "e">>, <<"b", "i", "o", "g", "r", "a", "p", "h", "y">>,
    <<"c", "o", "m", "e", "d", "y">>, <<"c", "r", "i", "m", "e">>, <<"d", "o", "c", "u", "m", "e", "n", "t", "a", "r", "y">>, <<"d", "r", "a", "m", "a">>, <<"f", "a", "m", "i", "l", "y">>,
    <<"f", "a", "n", "t", "a", "s", "y">>, <<"f", "i", "l", "m", "-", "n", "o", "i", "r">>, <<"h", "i", "s", "t", "o", "r", "y">>, <<"h", "o", "r", "r", "o", "r">>, <<"m", "u", "s", "i", "c", "a", "l">>,
    <<"m", "y", "s", "t", "e", "r", "y">>, <<"r", "o", "m", "a", "n", "c", "e">>, <<"s", "c", "i", "-", "f", "i">>, <<"s", "c", "i", "e", "n", "c", "e", " ", "f", "i", "c", "t", "i", "o", "n">>, <<"s", "p", "o", "r", "t">>,
    <<"t", "h", "r", "i", "l", "l", "e", "r">>, <<"w", "a", "r">>, <<"w", "e", "s", "t", "e", "r", "n">>>>

\* Genre taking the listed genre that stands first in the text
GenreFirstInText(lowerQuery) ==
  LET at(j) == Leftmost({i \in 1..Len(lowerQuery) : StartsAt(lowerQuery, i, genres[j])})
      hits == {j \in 1..Len(genres) : includes(lowerQuery, genres[j])}
  IN  IF hits = {} THEN Undefined
      ELSE LET i == CHOOSE j \in hits : \A k \in hits : at(j) <= at(k)
           IN  IF genres[i] = <<"s", "c", "i", "e", "n", "c", "e", " ", "f", "i", "c", "t", "i", "o", "n">> THEN Some(<<"s", "c", "i", "-", "f", "i">>)
               ELSE Some(genres[i])

Genre(lowerQuery) ==
  LET i == Leftmost({j \in 1..Len(genres) : includes(lowerQuery, genres[j])})
  IN  IF i = 0 THEN Undefined
      ELSE IF genres[i] = <<"s", "c", "i", "e", "n", "c", "e", " ", "f", "i", "c", "t", "i", "o", "n">> THEN Some(<<"s", "c", "i", "-", "f", "i">>)
      ELSE Some(genres[i])

\* Duration
Duration(lowerQuery) ==
  LET sm == shortMatch(lowerQuery)
      lm == longMatch(lowerQuery)
  IN  [maxDuration |-> IF sm = Undefined THEN Undefined
                       ELSE IF sm[1] # <<>> THEN Some(parseInt(sm[1]))
                       ELSE Some(90),
       minDuration |-> IF lm = Undefined THEN Undefined
                       ELSE IF lm[1] # <<>> THEN Some(parseInt(lm[1]))
                       ELSE Some(120)]

\* Resolution with "hd" looked for first
ResolutionHdFirst(lowerQuery) ==
  IF includes(lowerQuery, <<"h", "d">>) THEN Some("hd")
  ELSE IF AnyOf(lowerQuery, {<<"4", "k">>, <<"u", "h", "d">>}) THEN Some("4k")
  ELSE Undefined

\* Resolution
Resolution(lowerQuery) ==
  IF AnyOf(lowerQuery, {<<"4", "k">>, <<"u", "h", "d">>}) THEN Some("4k")
  ELSE IF includes(lowerQuery, <<"h", "d">>) /\ ~includes(lowerQuery, <<"u", "h", "d">>)
    THEN Some("hd")
  ELSE Undefined

\* Recently added with the unit defaulting to a day
RecentlyAddedBareDay(lowerQuery) ==
  LET rm == recentMatch(lowerQuery)
      num == IF rm # Undefined /\ rm[1] # <<>> THEN parseInt(rm[1]) ELSE 1
      unit == IF rm # Undefined THEN rm[2] ELSE <<"d", "a", "y">>
  IN  IF rm # Undefined \/ AnyOf(lowerQuery, {<<"r", "e", "c", "e", "n", "t", "l", "y", " ", "a", "d", "d", "e", "d">>, <<"n", "e", "w">>})
        THEN IF unit = <<"d", "a", "y">> THEN Some(num)
             ELSE IF unit = <<"w", "e", "e", "k">> THEN Some(num * 7)
             ELSE IF unit = <<"m", "o", "n", "t", "h">> THEN Some(num * 30)
             ELSE Undefined
      ELSE Undefined

\* Recently added with the bare "new" counted only as a word of its own
RecentlyAddedWholeWord(lowerQuery) ==
  LET rm == recentMatch(lowerQuery)
      num == IF rm # Undefined /\ rm[1] # <<>> THEN parseInt(rm[1]) ELSE 1
      unit == IF rm # Undefined THEN rm[2] ELSE <<"w", "e", "e", "k">>
      word == \E j \in 1..Len(lowerQuery) :
                /\ StartsAt(lowerQuery, j, <<"n", "e", "w">>)
                /\ ~IsWordChar(At(lowerQuery, j - 1))
                /\ ~IsWordChar(At(lowerQuery, j + 3))
  IN  IF rm # Undefined \/ includes(lowerQuery, <<"r", "e", "c", "e", "n", "t", "l", "y", " ", "a", "d", "d", "e", "d">>) \/ word
        THEN IF unit = <<"d", "a", "y">> THEN Some(num)
             ELSE IF unit = <<"w", "e", "e", "k">> THEN Some(num * 7)
             ELSE IF unit = <<"m", "o", "n", "t", "h">> THEN Some(num * 30)
             ELSE Undefined
      ELSE Undefined

\* Recently added
RecentlyAdded(lowerQuery) ==
  LET rm == recentMatch(lowerQuery)
      num == IF rm # Undefined /\ rm[1] # <<>> THEN parseInt(rm[1]) ELSE 1
      unit == IF rm # Undefined THEN rm[2] ELSE <<"w", "e", "e", "k">>
  IN  IF rm # Undefined \/ AnyOf(lowerQuery, {<<"r", "e", "c", "e", "n", "t", "l", "y", " ", "a", "d", "d", "e", "d">>, <<"n", "e", "w">>})
        THEN IF unit = <<"d", "a", "y">> THEN Some(num)
             ELSE IF unit = <<"w", "e", "e", "k">> THEN Some(num * 7)
             ELSE IF unit = <<"m", "o", "n", "t", "h">> THEN Some(num * 30)
             ELSE Undefined
      ELSE Undefined

\* Content ratings
contentRatings ==
  <<<<"g">>, <<"p", "g">>, <<"p", "g", "-", "1", "3">>, <<"r">>, <<"n", "c", "-", "1", "7">>, <<"t", "v", "-", "y">>, <<"t", "v", "-", "y", "7">>, <<"t", "v", "-", "g">>,
    <<"t", "v", "-", "p", "g">>, <<"t", "v", "-", "1", "4">>, <<"t", "v", "-", "m", "a">>>>

\* the upper-case letter of each lower-case letter
UpperOfLower == [c \in Range(LowerCase) |-> UpperCase[CHOOSE i \in 1..26 : LowerCase[i] = c]]

UpperOf(c) == IF c \in DOMAIN UpperOfLower THEN UpperOfLower[c] ELSE c

RECURSIVE toUpperCase(_)
toUpperCase(s) ==
  IF s = <<>> THEN <<>> ELSE <<UpperOf(Head(s))>> \o toUpperCase(Tail(s))

\* ContentRating matching the hyphenated entries only
ContentRatingHyphenated(lowerQuery) ==
  LET i == Leftmost({j \in 1..Len(contentRatings) :
                       includes(lowerQuery, contentRatings[j])})
  IN  IF i = 0 THEN Undefined ELSE Some(toUpperCase(contentRatings[i]))

\* ContentRating returning the last entry of the list that the text contains
ContentRatingLastListed(lowerQuery) ==
  LET hit(cr) == \/ includes(lowerQuery, cr)
                 \/ includes(lowerQuery, replace(cr, <<"-">>, <<" ">>))
      hits == {j \in 1..Len(contentRatings) : hit(contentRatings[j])}
  IN  IF hits = {} THEN Undefined
      ELSE Some(toUpperCase(contentRatings[CHOOSE j \in hits : \A k \in hits : k <= j]))

ContentRating(lowerQuery) ==
  LET hit(cr) == \/ includes(lowerQuery, cr)
                 \/ includes(lowerQuery, replace(cr, <<"-">>, <<" ">>))
      i == Leftmost({j \in 1..Len(contentRatings) : hit(contentRatings[j])})
  IN  IF i = 0 THEN Undefined ELSE Some(toUpperCase(contentRatings[i]))

\* Sorting with the newest-first words looked for before the best-rated ones
SortingNewestFirst(lowerQuery) ==
  IF AnyOf(lowerQuery, {<<"n", "e", "w", "e", "s", "t">>, <<"l", "a", "t", "e", "s", "t">>, <<"r", "e", "c", "e", "n", "t">>})
    THEN [sort |-> Some("addedAt"), sortOrder |-> Some("desc")]
  ELSE IF AnyOf(lowerQuery, {<<"b", "e", "s", "t">>, <<"t", "o", "p", " ", "r", "a", "t", "e", "d">>, <<"h", "i", "g", "h", "e", "s", "t", " ", "r", "a", "t", "e", "d">>})
    THEN [sort |-> Some("rating"), sortOrder |-> Some("desc")]
  ELSE IF includes(lowerQuery, <<"o", "l", "d", "e", "s", "t">>)
    THEN [sort |-> Some("year"), sortOrder |-> Some("asc")]
  ELSE IF AnyOf(lowerQuery, {<<"r", "a", "n", "d", "o", "m">>, <<"s", "u", "r", "p", "r", "i", "s", "e">>})
    THEN [sort |-> Some("random"), sortOrder |-> Undefined]
  ELSE [sort |-> Undefined, sortOrder |-> Undefined]

\* Sorting
Sorting(lowerQuery) ==
  IF AnyOf(lowerQuery, {<<"b", "e", "s", "t">>, <<"t", "o", "p", " ", "r", "a", "t", "e", "d">>, <<"h", "i", "g", "h", "e", "s", "t", " ", "r", "a", "t", "e", "d">>})
    THEN [sort |-> Some("rating"), sortOrder |-> Some("desc")]
  ELSE IF AnyOf(lowerQuery, {<<"n", "e", "w", "e", "s", "t">>, <<"l", "a", "t", "e", "s", "t">>, <<"r", "e", "c", "e", "n", "t">>})
    THEN [sort |-> Some("addedAt"), sortOrder |-> Some("desc")]
  ELSE IF includes(lowerQuery, <<"o", "l", "d", "e", "s", "t">>)
    THEN [sort |-> Some("year"), sortOrder |-> Some("asc")]
  ELSE IF AnyOf(lowerQuery, {<<"r", "a", "n", "d", "o", "m">>, <<"s", "u", "r", "p", "r", "i", "s", "e">>})
    THEN [sort |-> Some("random"), sortOrder |-> Undefined]
  ELSE [sort |-> Undefined, sortOrder |-> Undefined]

parseNaturalLanguageQuery(q) ==
  LET lowerQuery == toLowerCase(q)
      watch == WatchStatus(lowerQuery)
      years == YearSignals(lowerQuery)
      rating == Ratings(lowerQuery)
      dur == Duration(lowerQuery)
      sorting == Sorting(lowerQuery)
  IN  [NoFilters EXCEPT
         !["type"] = DetectMediaType(lowerQuery),
         !["unwatched"] = watch.unwatched,
         !["watched"] = watch.watched,
         !["inProgress"] = watch.inProgress,
         !["decade"] = years.decade,
         !["minYear"] = years.minYear,
         !["year"] = years.year,
         !["maxYear"] = years.maxYear,
         !["minRating"] = rating.minRating,
         !["maxRating"] = rating.maxRating,
         !["genre"] = Genre(lowerQuery),
         !["maxDuration"] = dur.maxDuration,
         !["minDuration"] = dur.minDuration,
         !["resolution"] = Resolution(lowerQuery),
         !["addedWithin"] = RecentlyAdded(lowerQuery),
         !["contentRating"] = ContentRating(lowerQuery),
         !["sort"] = sorting.sort,
         !["sortOrder"] = sorting.sortOrder]

----------------------------------------------------------------------------
(* The Compiler: PlexApiClient.advancedSearch *)

\* JavaScript truthiness of an optional number, flag, enumeration word
\* (a TLA+ string), text (a sequence of characters) and decimal number
TruthyNum(o) == o # Undefined /\ o[1] # 0

TruthyFlag(o) == o # Undefined /\ o[1]

TruthyWord(o) == o # Undefined /\ o[1] # ""

TruthyText(o) == o # Undefined /\ o[1] # <<>>

TruthyDec(o) == o # Undefined /\ (o[1].whole # 0 \/ o[1].frac # <<>>)

\* params[k] = v
Put(p, k, v) == (k :> v) @@ p

Has(p, k) == k \in DOMAIN p

\* FindSection taking the last section of the type instead of the first
FindSectionLast(list, t) ==
  LET S == {j \in 1..Len(list) : list[j].type = t}
  IN  IF S = {} THEN Undefined
      ELSE Some(list[CHOOSE i \in S : \A j \in S : j <= i].key)

\* sections.find((s) => s.type === t)?.key
FindSection(list, t) ==
  LET i == Leftmost({j \in 1..Len(list) : list[j].type = t})
  IN  IF i = 0 THEN Undefined ELSE Some(list[i].key)

\* SectionForType falling back to the first listed section
SectionForTypeOrFirst(f, list) ==
  LET t == IF f["type"] = Some("movie") THEN "movie"
           ELSE IF f["type"] \in {Some("show"), Some("episode")} THEN "show"
           ELSE "artist"
  IN  IF FindSection(list, t) # Undefined THEN FindSection(list, t)
      ELSE IF list # <<>> THEN Some(list[1].key)
      ELSE Undefined

\* Determine the section to search, once the section list is there
SectionForType(f, list) ==
  IF f["type"] = Some("movie") THEN FindSection(list, "movie")
  ELSE IF f["type"] \in {Some("show"), Some("episode")}
    THEN FindSection(list, "show")
  ELSE IF f["type"] \in {Some("artist"), Some("album"), Some("track")}
    THEN FindSection(list, "artist")
  ELSE Undefined

\* typeMap and sortMap are object literals: a lookup map[k] finds the literal's
\* own keys and, for any other k, the members every object inherits from
\* Object.prototype, all of them truthy (functions, and the prototype itself)
ObjectPrototype ==
  {"constructor", "hasOwnProperty", "isPrototypeOf", "propertyIsEnumerable",
   "toLocaleString", "toString", "valueOf", "__defineGetter__",
   "__defineSetter__", "__lookupGetter__", "__lookupSetter__", "__proto__"}

\* an inherited member as a template literal writes it
MemberText(k) ==
  IF k = "__proto__" THEN "[object Object]"
  ELSE IF k = "constructor" THEN "function Object() { [native code] }"
  ELSE "function " \o k \o "() { [native code] }"

\* an inherited member where a type code is expected: truthy and no number,
\* written as a code that stands for no media type
InheritedMember == -1

typeMap ==
  <<"movie", "show", "season", "episode", "trailer", "comic", "person",
    "artist", "album", "track", "photo", "clip", "photo_album">>

\* getPlexTypeNumber counting the table from 0
getPlexTypeNumberFromZero(type) ==
  LET i == Leftmost({j \in 1..Len(typeMap) : Some(typeMap[j]) = type})
  IN  IF i # 0 THEN i - 1
      ELSE IF type # Undefined /\ type[1] \in ObjectPrototype THEN InheritedMember
      ELSE 1

\* typeMap[type] || 1
getPlexTypeNumber(type) ==
  LET i == Leftmost({j \in 1..Len(typeMap) : Some(typeMap[j]) = type})
  IN  IF i # 0 THEN i
      ELSE IF type # Undefined /\ type[1] \in ObjectPrototype THEN InheritedMember
      ELSE 1

\* Title filter
TitleParam(p, f) ==
  IF TruthyText(f["title"]) THEN Put(p, "title", f["title"][1]) ELSE p

DefaultMinYear == 1800

\* YearParams putting the two bounds in order
YearParamsOrdered(p, f, clk) ==
  LET p1 == IF TruthyNum(f["year"]) THEN Put(p, "year", f["year"][1]) ELSE p
      min == IF TruthyNum(f["minYear"]) THEN f["minYear"][1] ELSE DefaultMinYear
      max == IF TruthyNum(f["maxYear"]) THEN f["maxYear"][1] ELSE clk.year
      p2 == IF TruthyNum(f["minYear"]) \/ TruthyNum(f["maxYear"])
              THEN Put(Put(p1, "year>>", Min({min, max})), "year<<",
                       IF min > max THEN min ELSE max)
              ELSE p1
  IN  IF TruthyNum(f["decade"])
        THEN Put(Put(p2, "year>>", f["decade"][1]), "year<<", f["decade"][1] + 9)
        ELSE p2

\* YearParams emitting only the bound that was given
YearParamsOneSided(p, f, clk) ==
  LET p1 == IF TruthyNum(f["year"]) THEN Put(p, "year", f["year"][1]) ELSE p
      p2 == IF TruthyNum(f["minYear"]) THEN Put(p1, "year>>", f["minYear"][1]) ELSE p1
      p3 == IF TruthyNum(f["maxYear"]) THEN Put(p2, "year<<", f["maxYear"][1]) ELSE p2
  IN  IF TruthyNum(f["decade"])
        THEN Put(Put(p3, "year>>", f["decade"][1]), "year<<", f["decade"][1] + 9)
        ELSE p3

\* Year filters
YearParams(p, f, clk) ==
  LET p1 == IF TruthyNum(f["year"]) THEN Put(p, "year", f["year"][1]) ELSE p
      min == IF TruthyNum(f["minYear"]) THEN f["minYear"][1] ELSE DefaultMinYear
      max == IF TruthyNum(f["maxYear"]) THEN f["maxYear"][1] ELSE clk.year
      p2 == IF TruthyNum(f["minYear"]) \/ TruthyNum(f["maxYear"])
              THEN Put(Put(p1, "year>>", min), "year<<", max)
              ELSE p1
  IN  IF TruthyNum(f["decade"])
        THEN Put(Put(p2, "year>>", f["decade"][1]), "year<<", f["decade"][1] + 9)
        ELSE p2

\* RatingParams emitting a key for every rating that is given, 0 included
RatingParamsDefined(p, f) ==
  LET p1 == IF f["minRating"] # Undefined
              THEN Put(p, "rating>>", f["minRating"][1]) ELSE p
  IN  IF f["maxRating"] # Undefined
        THEN Put(p1, "rating<<", f["maxRating"][1]) ELSE p1

\* Rating filters
RatingParams(p, f) ==
  LET p1 == IF TruthyDec(f["minRating"])
              THEN Put(p, "rating>>", f["minRating"][1]) ELSE p
  IN  IF TruthyDec(f["maxRating"])
        THEN Put(p1, "rating<<", f["maxRating"][1]) ELSE p1

\* a text field that is passed through under its own name
PassThrough(p, f, k) == IF TruthyText(f[k]) THEN Put(p, k, f[k][1]) ELSE p

\* Genre filter, Content rating, Director filter, Actor filter, Studio filter
TextParams(p, f) ==
  PassThrough(PassThrough(PassThrough(PassThrough(PassThrough(
    p, f, "genre"), f, "contentRating"), f, "director"), f, "actor"), f, "studio")

\* WatchParams with the three tests chained by else
WatchParamsExclusive(p, f) ==
  IF TruthyFlag(f["unwatched"]) THEN Put(p, "unwatched", 1)
  ELSE IF TruthyFlag(f["watched"]) THEN Put(p, "viewCount>>", 0)
  ELSE IF TruthyFlag(f["inProgress"]) THEN Put(p, "inProgress", 1)
  ELSE p

\* Watch status filters
WatchParams(p, f) ==
  LET p1 == IF TruthyFlag(f["unwatched"]) THEN Put(p, "unwatched", 1) ELSE p
      p2 == IF TruthyFlag(f["watched"]) THEN Put(p1, "viewCount>>", 0) ELSE p1
  IN  IF TruthyFlag(f["inProgress"]) THEN Put(p2, "inProgress", 1) ELSE p2

\* DurationParams converting minutes to seconds only
DurationParamsSeconds(p, f) ==
  LET p1 == IF TruthyNum(f["minDuration"])
              THEN Put(p, "duration>>", f["minDuration"][1] * 60) ELSE p
  IN  IF TruthyNum(f["maxDuration"])
        THEN Put(p1, "duration<<", f["maxDuration"][1] * 60) ELSE p1

\* Duration filters (convert minutes to milliseconds)
DurationParams(p, f) ==
  LET p1 == IF TruthyNum(f["minDuration"])
              THEN Put(p, "duration>>", f["minDuration"][1] * 60 * 1000) ELSE p
  IN  IF TruthyNum(f["maxDuration"])
        THEN Put(p1, "duration<<", f["maxDuration"][1] * 60 * 1000) ELSE p1

\* RecentParams rounding to the nearest second
RecentParamsRounded(p, f, clk) ==
  IF TruthyNum(f["addedWithin"])
    THEN Put(p, "addedAt>>", clk.sec - f["addedWithin"][1] * 24 * 60 * 60
                               + (IF clk.ms >= 500 THEN 1 ELSE 0))
    ELSE p

\* Recently added filter.  Date.now() is held as whole seconds and the
\* milliseconds within the second (0..999), so daysAgo * 24 * 60 * 60 * 1000
\* ms is daysAgo * 24 * 60 * 60 whole seconds and Math.floor(... / 1000)
\* drops the milliseconds.
RecentParams(p, f, clk) ==
  IF TruthyNum(f["addedWithin"])
    THEN Put(p, "addedAt>>", clk.sec - f["addedWithin"][1] * 24 * 60 * 60)
    ELSE p

\* Resolution filter
ResolutionParams(p, f) ==
  IF TruthyWord(f["resolution"])
    THEN IF f["resolution"][1] = "4k" THEN Put(p, "videoResolution", "4k")
         ELSE IF f["resolution"][1] = "hd" THEN Put(p, "videoResolution", "1080")
         ELSE p
    ELSE p

sortMap ==
  {"titleSort", "year", "rating", "addedAt", "lastViewedAt", "duration", "random"}

\* sortMap[filters.sort] || 'titleSort', when filters.sort is truthy
SortField(f) ==
  IF ~TruthyWord(f["sort"]) THEN "titleSort"
  ELSE IF f["sort"][1] \in sortMap THEN f["sort"][1]
  ELSE IF f["sort"][1] \in ObjectPrototype THEN MemberText(f["sort"][1])
  ELSE "titleSort"

\* SortParam giving the field random no direction
SortParamBareRandom(p, f) ==
  LET sortField == SortField(f)
      sortDir == IF f["sortOrder"] = Some("desc") THEN "desc" ELSE "asc"
  IN  Put(p, "sort", IF sortField = "random" THEN "random"
                     ELSE sortField \o ":" \o sortDir)

\* Sorting
SortParam(p, f) ==
  LET sortField == SortField(f)
      sortDir == IF f["sortOrder"] = Some("desc") THEN "desc" ELSE "asc"
  IN  Put(p, "sort", sortField \o ":" \o sortDir)

DefaultLimit == 25

\* LimitParams turning the page when the filter of the remembered call comes
\* again
LimitParamsNextPage(p, f) ==
  LET size == IF TruthyNum(f["limit"]) THEN f["limit"][1] ELSE DefaultLimit
  IN  Put(Put(p, "X-Plex-Container-Start",
              IF earlier # Undefined /\ earlier[1].filters = f THEN size ELSE 0),
          "X-Plex-Container-Size", size)

\* LimitParams asking for at least one record
LimitParamsClamped(p, f) ==
  Put(Put(p, "X-Plex-Container-Start", 0), "X-Plex-Container-Size",
      IF TruthyNum(f["limit"])
        THEN (IF f["limit"][1] < 1 THEN 1 ELSE f["limit"][1])
        ELSE DefaultLimit)

\* Limit
LimitParams(p, f) ==
  Put(Put(p, "X-Plex-Container-Start", 0), "X-Plex-Container-Size",
      IF TruthyNum(f["limit"]) THEN f["limit"][1] ELSE DefaultLimit)

\* Build Plex filter parameters
BuildParams(f, clk) ==
  LET p0 == "type" :> getPlexTypeNumber(f["type"])
      p1 == YearParams(TitleParam(p0, f), f, clk)
      p2 == WatchParams(TextParams(RatingParams(p1, f), f), f)
      p3 == ResolutionParams(RecentParams(DurationParams(p2, f), f, clk), f)
  IN  LimitParams(SortParam(p3, f), f)

SectionError == "Could not determine library section for search"

----------------------------------------------------------------------------
(* The inputs: tool arguments, the server's section list, the clock *)

\* the most phrases a free-text query is made of
MaxPhrases == 2

\* the most library sections the server lists
MaxSections == 2

RECURSIVE Join(_)
Join(ps) ==
  IF ps = <<>> THEN <<>>
  ELSE IF Len(ps) = 1 THEN ps[1]
  ELSE ps[1] \o <<" ">> \o Join(Tail(ps))

SeqsUpTo(S, n) == UNION {[1..k -> S] : k \in 0..n}

YearPhrases ==
  {<<"b", "e", "f", "o", "r", "e", " ", "1", "9", "9", "5">>, <<"a", "f", "t", "e", "r", " ", "1", "9", "9", "0">>, <<"f", "r", "o", "m", " ", "1", "9", "8", "5">>, <<"9", "0", "s">>, <<"2", "0", "0", "1">>,
   <<"b", "e", "f", "o", "r", "e", " ", "0", "0", "0", "1">>, <<"B", "e", "f", "o", "r", "e", " ", "1", "9", "9", "9">>, <<"A", "F", "T", "E", "R", " ", "2", "0", "1", "0">>}

WatchPhrases ==
  {<<"u", "n", "w", "a", "t", "c", "h", "e", "d">>, <<"w", "a", "t", "c", "h", "e", "d">>, <<"n", "o", "t", " ", "w", "a", "t", "c", "h", "e", "d">>, <<"h", "a", "v", "e", "n", "'", "t", " ", "w", "a", "t", "c", "h", "e", "d">>,
   <<"i", "n", " ", "p", "r", "o", "g", "r", "e", "s", "s">>, <<"s", "t", "a", "r", "t", "e", "d">>, <<"c", "o", "n", "t", "i", "n", "u", "e">>, <<"s", "h", "o", "w", "s">>}

ScenarioPhrases ==
  {<<"m", "o", "v", "i", "e", "s">>, <<"r", "a", "t", "e", "d", " ", "a", "b", "o", "v", "e", " ", "7">>, <<"r", "a", "t", "e", "d", " ", "b", "e", "l", "o", "w", " ", "8", ".", "5">>, <<"e", "p", "i", "s", "o", "d", "e", "s">>,
   <<"t", "v">>, <<"r", "a", "n", "d", "o", "m">>}

DecadePhrases ==
  {<<"9", "0", "s">>, <<"2", "0", "s">>, <<"1", "9", "8", "0", "s">>, <<"2", "9", "s">>, <<"3", "0", "s">>, <<"0", "5", "s">>, <<"3", "0", "s", "e", "c", "o", "n", "d", "s">>}

GenrePhrases ==
  {<<"c", "o", "m", "e", "d", "y">>, <<"w", "e", "s", "t", "e", "r", "n">>, <<"s", "c", "i", "e", "n", "c", "e", " ", "f", "i", "c", "t", "i", "o", "n">>, <<"s", "c", "i", "-", "f", "i">>, <<"w", "a", "r">>,
   <<"D", "r", "a", "m", "a">>, <<"a", "n", "i", "m", "a", "t", "i", "o", "n">>}

ContentPhrases ==
  {<<"t", "v", "-", "1", "4">>, <<"t", "v", " ", "1", "4">>, <<"n", "c", "-", "1", "7">>, <<"t", "v", " ", "y", "7">>, <<"p", "g", "-", "1", "3">>, <<"R">>, <<"x">>}

Vocabularies ==
  {YearPhrases, WatchPhrases, ScenarioPhrases, DecadePhrases, GenrePhrases,
   ContentPhrases}

\* the free texts: up to MaxPhrases phrases of one vocabulary, joined by spaces
Queries == {Join(ps) : ps \in UNION {SeqsUpTo(V, MaxPhrases) : V \in Vocabularies}}

SmartLimits == {Undefined, Some(10), Some(0)}

\* the texts smart_search is called with under each limit
LimitQueries == {<<>>, <<"m", "o", "v", "i", "e", "s">>, <<"s", "h", "o", "w", "s">>}

\* the arguments of smart_search: every text with the limit left out, and a
\* few texts with each limit
SmartArgs ==
  {<<q, Undefined>> : q \in Queries}
    \cup {<<q, l>> : q \in LimitQueries, l \in SmartLimits}

\* advancedSearchSchema: the media types the advanced_search tool accepts
SchemaTypes == {"movie", "show", "episode", "artist", "album", "track"}

Opt(S) == {Undefined} \cup {Some(v) : v \in S}

With(base, vals) ==
  {[f \in FilterFields |-> IF f \in DOMAIN v THEN v[f] ELSE base[f]] : v \in vals}

MovieArgs(sid) == [NoFilters EXCEPT !["type"] = Some("movie"), !["sectionId"] = sid]

YearArgs ==
  [year : Opt({0, 1995}), minYear : Opt({0, 1990, 2005}),
   maxYear : Opt({0, 1999}), decade : Opt({0, 1990})]

WatchArgs ==
  [unwatched : Opt(BOOLEAN), watched : Opt(BOOLEAN), inProgress : Opt(BOOLEAN)]

DurationArgs ==
  [minDuration : Opt({0, 90, -5}), maxDuration : Opt({0, 150})]

SortArgs ==
  [sort : Opt(sortMap), sortOrder : Opt({"asc", "desc"}), limit : Opt({0, 10, -1})]

TextArgs ==
  [title : Opt({<<"A", "l", "i", "e", "n">>}), genre : Opt({<<"H", "o", "r", "r", "o", "r">>}),
   contentRating : Opt({<<"R">>}), director : Opt({<<"R", "i", "d", "l", "e", "y", " ", "S", "c", "o", "t", "t">>}),
   actor : Opt({<<"S", "i", "g", "o", "u", "r", "n", "e", "y", " ", "W", "e", "a", "v", "e", "r">>}), studio : Opt({<<"F", "o", "x">>})]
  \cup {[title |-> Some(<<>>), genre |-> Some(<<>>), contentRating |-> Some(<<>>),
         director |-> Some(<<>>), actor |-> Some(<<>>), studio |-> Some(<<>>)]}

MiscArgs ==
  [minRating : Opt({Num(0, <<>>), Num(7, <<>>)}),
   maxRating : Opt({Num(0, <<>>), Num(9, <<"5">>)}),
   addedWithin : Opt({0, 7, -1}), resolution : Opt({"sd", "hd", "4k"})]

SectionArgs == [type : Opt(SchemaTypes) \ {Undefined}, sectionId : Opt({"", "7"})]

\* the arguments of advanced_search: one group of fields varies, over a
\* movie search with or without an explicit section
AdvancedArgs ==
  UNION {With(MovieArgs(sid), G) :
           sid \in {Undefined, Some("7")},
           G \in {YearArgs, WatchArgs, DurationArgs, SortArgs, TextArgs, MiscArgs}}
  \cup With(NoFilters, SectionArgs)

\* filters a caller of the exported client can pass that no tool schema admits:
\* the types of typeMap that no schema lists, unknown words, inherited names
ClientTypeArgs ==
  [type : Opt({"season", "trailer", "comic", "person", "photo", "clip",
               "photo_album", "podcast", "", "constructor"}),
   sectionId : Opt({"7"})]

ClientSortArgs ==
  [type : Opt({"season"}), sectionId : Opt({"7"}),
   sort : Opt({"popularity", "random", "constructor", "__proto__"}),
   sortOrder : Opt({"DESC", "desc"})]

ClientArgs == With(NoFilters, ClientTypeArgs) \cup With(NoFilters, ClientSortArgs)

SectionPool ==
  {[key |-> "1", type |-> "movie"], [key |-> "2", type |-> "movie"],
   [key |-> "3", type |-> "show"], [key |-> "4", type |-> "artist"]}

\* the section lists the server may answer with: distinct sections, any order
SectionLists ==
  {l \in SeqsUpTo(SectionPool, MaxSections) :
     \A i, j \in 1..Len(l) : i # j => l[i] # l[j]}

\* new Date().getFullYear() and Date.now() (whole seconds, milliseconds)
Clocks ==
  {[year |-> 2025, sec |-> 1767225599, ms |-> 999],
   [year |-> 2026, sec |-> 1767225600, ms |-> 0]}

\* the calls made more than once: filters given to the client, texts given to
\* smart_search
RepeatArgs ==
  {[NoFilters EXCEPT !["type"] = Some("movie")],
   [NoFilters EXCEPT !["type"] = Some("movie"), !["minYear"] = Some(1990)],
   [NoFilters EXCEPT !["type"] = Some("movie"), !["sectionId"] = Some("7"),
                     !["addedWithin"] = Some(7)],
   [NoFilters EXCEPT !["type"] = Some("show"), !["sectionId"] = Some("7"),
                     !["sort"] = Some("year")]}

RepeatQueries == {<<"s", "h", "o", "w", "s">>, <<"a", "f", "t", "e", "r", " ", "1", "9", "9", "0">>}

\* what handleError makes of a failed request
TransportErrors == {"Plex API error", "Network error"}

\* the search answered: with records, or with none
SearchOutcomes == {"Found", "No results found"}

----------------------------------------------------------------------------
(* The tool handlers and the steps of a search *)

NoParams == <<>>

Init ==
  /\ pc = "idle"
  /\ tool = "none"
  /\ args = NoFilters
  /\ query = <<>>
  /\ extracted = NoFilters
  /\ filters = NoFilters
  /\ consulted = FALSE
  /\ sections = Undefined
  /\ sectionId = Undefined
  /\ params = NoParams
  /\ request = Undefined
  /\ clock = Undefined
  /\ response = Undefined
  /\ earlier = Undefined

\* the section is known: build the parameters and send the search request
\* (this.client.get(`/library/sections/${sectionId}/all`, { params }))
Compile(f, sid, clk) ==
  /\ sectionId' = sid
  /\ clock' = Some(clk)
  /\ params' = BuildParams(f, clk)
  /\ request' = Some([section |-> sid[1], params |-> params'])
  /\ response' = Undefined
  /\ pc' = "awaitBackend"

\* PlexApiClient.advancedSearch up to its first await: with a sectionId the
\* query is compiled and sent, without one the section list is asked for
ClientAdvancedSearch(f) ==
  /\ filters' = f
  /\ IF TruthyWord(f["sectionId"])
       THEN /\ \E clk \in Clocks : Compile(f, f["sectionId"], clk)
            /\ UNCHANGED <<consulted, sections>>
       ELSE /\ consulted' = TRUE
            /\ pc' = "awaitSections"
            /\ UNCHANGED <<sections, sectionId, params, request, clock, response>>

\* smartSearchSchema: limit defaults to 25
smartSearchSchema(limit) == IF limit = Undefined THEN Some(DefaultLimit) ELSE limit

\* smartSearch: the filters handed to the client
SmartFilters(parsed, limit) ==
  LET typed == IF ~TruthyWord(parsed["type"])
                 THEN [parsed EXCEPT !["type"] = Some("movie")]
                 ELSE parsed
  IN  [typed EXCEPT !["limit"] = limit]

\* the smart_search tool, called with a <<query, limit>> of A
SmartSearchWith(A) ==
  /\ pc = "idle"
  /\ \E a \in A :
       LET parsed == parseNaturalLanguageQuery(a[1])
       IN  /\ tool' = "smart_search"
           /\ args' = [NoFilters EXCEPT !["limit"] = a[2]]
           /\ query' = a[1]
           /\ extracted' = parsed
           /\ ClientAdvancedSearch(SmartFilters(parsed, smartSearchSchema(a[2])))
  /\ UNCHANGED earlier

SmartSearch == SmartSearchWith(SmartArgs)

\* advancedSearchSchema with the sortOrder defaulting to "asc"
advancedSearchSchemaAscending(a) ==
  [a EXCEPT
     !["limit"] = IF @ = Undefined THEN Some(DefaultLimit) ELSE @,
     !["sortOrder"] = IF @ = Undefined THEN Some("asc") ELSE @]

\* advancedSearchSchema: limit defaults to 25, sortOrder to "desc"
advancedSearchSchema(a) ==
  [a EXCEPT
     !["limit"] = IF @ = Undefined THEN Some(DefaultLimit) ELSE @,
     !["sortOrder"] = IF @ = Undefined THEN Some("desc") ELSE @]

\* the advanced_search tool, called with arguments of A
AdvancedSearchWith(A) ==
  /\ pc = "idle"
  /\ \E a \in A :
       /\ tool' = "advanced_search"
       /\ args' = a
       /\ ClientAdvancedSearch(advancedSearchSchema(a))
  /\ UNCHANGED <<query, extracted, earlier>>

AdvancedSearch == AdvancedSearchWith(AdvancedArgs)

\* a direct call of the exported client, with no schema in front, with a
\* filter of F
ClientCallWith(F) ==
  /\ pc = "idle"
  /\ \E f \in F :
       /\ tool' = "client"
       /\ args' = f
       /\ ClientAdvancedSearch(f)
  /\ UNCHANGED <<query, extracted, earlier>>

ClientCall == ClientCallWith(ClientArgs)

\* getLibrarySections answers: the section is resolved, and the query is
\* compiled and sent, or the search fails
SectionsReply ==
  /\ pc = "awaitSections"
  /\ \E list \in SectionLists :
       /\ sections' = Some(list)
       /\ LET sid == SectionForType(filters, list)
          IN  IF TruthyWord(sid)
                THEN \E clk \in Clocks : Compile(filters, sid, clk)
                ELSE /\ response' = Some(SectionError)
                     /\ pc' = "done"
                     /\ UNCHANGED <<sectionId, params, request, clock>>
  /\ UNCHANGED <<tool, args, query, extracted, filters, consulted, earlier>>

\* getLibrarySections fails: handleError rethrows, the tool reports the error
SectionsFail ==
  /\ pc = "awaitSections"
  /\ \E err \in TransportErrors : response' = Some(err)
  /\ pc' = "done"
  /\ UNCHANGED <<tool, args, query, extracted, filters, consulted, sections,
                 sectionId, params, request, clock, earlier>>

\* the search request is answered, with records or none, or fails
BackendReply ==
  /\ pc = "awaitBackend"
  /\ \E outcome \in SearchOutcomes \cup TransportErrors : response' = Some(outcome)
  /\ pc' = "done"
  /\ UNCHANGED <<tool, args, query, extracted, filters, consulted, sections,
                 sectionId, params, request, clock, earlier>>

\* the response is handed to the MCP caller; nothing of the call is kept
Forget ==
  /\ pc' = "idle"
  /\ tool' = "none"
  /\ args' = NoFilters
  /\ query' = <<>>
  /\ extracted' = NoFilters
  /\ filters' = NoFilters
  /\ consulted' = FALSE
  /\ sections' = Undefined
  /\ sectionId' = Undefined
  /\ params' = NoParams
  /\ request' = Undefined
  /\ clock' = Undefined
  /\ response' = Undefined

Deliver ==
  /\ pc = "done"
  /\ Forget
  /\ UNCHANGED earlier

Next ==
  \/ SmartSearch
  \/ AdvancedSearch
  \/ ClientCall
  \/ SectionsReply
  \/ SectionsFail
  \/ BackendReply
  \/ Deliver

Spec == Init /\ [][Next]_vars

\* Calls that come again.  The first call in which the section was decided
\* may be remembered when its response is delivered: earlier then holds what
\* went into it and what came out of it, for later calls to be compared with.
\* The program itself keeps nothing, and no step of it reads earlier.
RepeatedSmartSearch == SmartSearchWith({<<q, Undefined>> : q \in RepeatQueries})

RepeatedClientCall == ClientCallWith(RepeatArgs)

DeliverRemembered ==
  /\ pc = "done"
  /\ earlier = Undefined
  /\ sectionId # Undefined \/ response = Some(SectionError)
  /\ earlier' = Some([tool |-> tool, query |-> query, extracted |-> extracted,
                      filters |-> filters, sections |-> sections,
                      sectionId |-> sectionId, params |-> params,
                      clock |-> clock])
  /\ Forget

NextRepeat ==
  \/ RepeatedSmartSearch
  \/ RepeatedClientCall
  \/ SectionsReply
  \/ SectionsFail
  \/ BackendReply
  \/ Deliver
  \/ DeliverRemembered

SpecRepeat == Init /\ [][NextRepeat]_vars

----------------------------------------------------------------------------
(* Searches by intent: texts about resolution, sorting, recency, duration
   and content rating given to smart_search, and the resolutions given to
   advanced_search.  The steps are those of Spec; only the arguments differ. *)

ResolutionPhrases == {<<"4", "k">>, <<"U", "H", "D">>, <<"h", "d">>, <<"s", "d">>, <<"s", "h", "o", "w", "s">>}

SortPhrases ==
  {<<"b", "e", "s", "t">>, <<"t", "o", "p", " ", "r", "a", "t", "e", "d", " ", "c", "o", "m", "e", "d", "y", " ", "s", "h", "o", "w", "s">>, <<"h", "i", "g", "h", "e", "s", "t", " ", "r", "a", "t", "e", "d">>, <<"n", "e", "w", "e", "s", "t">>,
   <<"l", "a", "t", "e", "s", "t">>, <<"r", "e", "c", "e", "n", "t">>, <<"o", "l", "d", "e", "s", "t">>, <<"r", "a", "n", "d", "o", "m">>, <<"s", "u", "r", "p", "r", "i", "s", "e">>}

RecencyPhrases ==
  {<<"a", "d", "d", "e", "d", " ", "i", "n", " ", "t", "h", "e", " ", "l", "a", "s", "t", " ", "3", " ", "d", "a", "y", "s">>, <<"n", "e", "w", " ", "t", "h", "i", "s", " ", "m", "o", "n", "t", "h">>, <<"A", "d", "d", "e", "d", " ", "p", "a", "s", "t", " ", "2", " ", "w", "e", "e", "k", "s">>,
   <<"n", "e", "w", " ", "m", "o", "n", "t", "h">>, <<"r", "e", "c", "e", "n", "t", "l", "y", " ", "a", "d", "d", "e", "d">>, <<"n", "e", "w", "e", "s", "t">>, <<"a", "d", "d", "e", "d", " ", "0", " ", "d", "a", "y", "s">>,
   <<"m", "o", "v", "i", "e", "s">>}

DurationPhrases ==
  {<<"s", "h", "o", "r", "t">>, <<"u", "n", "d", "e", "r", " ", "6", "0", " ", "m", "i", "n">>, <<"U", "n", "d", "e", "r", " ", "2", " ", "h", "o", "u", "r", "s">>, <<"l", "o", "n", "g">>,
   <<"o", "v", "e", "r", " ", "1", "0", "0", " ", "m", "i", "n">>, <<"o", "v", "e", "r", " ", "3", " ", "h", "o", "u", "r">>, <<"m", "o", "v", "i", "e", "s">>}

RatedPhrases ==
  {<<"p", "g", "-", "1", "3", " ", "m", "o", "v", "i", "e", "s">>, <<"t", "v", "-", "p", "g">>, <<"T", "V", " ", "G">>, <<"r", "a", "t", "e", "d", " ", "r">>, <<"n", "c", "-", "1", "7">>, <<"t", "v", "-", "y", "7">>}

IntentVocabularies ==
  {ResolutionPhrases, SortPhrases, RecencyPhrases, DurationPhrases,
   RatedPhrases}

IntentQueries ==
  {Join(ps) : ps \in UNION {SeqsUpTo(V, MaxPhrases) : V \in IntentVocabularies}}

ResolutionArgs == [resolution : Opt({"sd", "hd", "4k"})]

IntentArgs == With(MovieArgs(Some("7")), ResolutionArgs)

IntentSmartSearch == SmartSearchWith({<<q, Undefined>> : q \in IntentQueries})

IntentAdvancedSearch == AdvancedSearchWith(IntentArgs)

NextIntent ==
  \/ IntentSmartSearch
  \/ IntentAdvancedSearch
  \/ SectionsReply
  \/ SectionsFail
  \/ BackendReply
  \/ Deliver

SpecIntent == Init /\ [][NextIntent]_vars

----------------------------------------------------------------------------
(* Properties *)

\* the query has been compiled and the search request sent
Compiled == request # Undefined

\* the lower-cased text of the free-text query
LowerQuery == toLowerCase(query)

\* the Extractor has returned: smart_search passes no sectionId, so every call
\* of it waits for the section list once, the extracted filter in hand
ExtractorReturned == tool = "smart_search" /\ pc = "awaitSections"

\* the text of smart_search has been compiled and the request just sent
SmartCompiled == tool = "smart_search" /\ pc = "awaitBackend"

\* the section type a filter type asks for ("none" when it has no family)
WantedSectionType(t) ==
  IF t = Some("movie") THEN "movie"
  ELSE IF t \in {Some("show"), Some("episode")} THEN "show"
  ELSE IF t \in {Some("artist"), Some("album"), Some("track")} THEN "artist"
  ELSE "none"

\* C1: the three year forms are mutually exclusive in every compiled query:
\* with decade set only year>>=decade, year<<=decade+9; else with minYear or
\* maxYear set only the range; else with year set only the exact year key; the
\* exact year key never stands beside year>> or year<<.
C1_YearFormsExclusive ==
  Compiled =>
    /\ ~(Has(params, "year") /\ (Has(params, "year>>") \/ Has(params, "year<<")))
    /\ TruthyNum(filters["decade"]) =>
         /\ Has(params, "year>>") /\ params["year>>"] = filters["decade"][1]
         /\ Has(params, "year<<") /\ params["year<<"] = filters["decade"][1] + 9
    /\ (~TruthyNum(filters["decade"])
          /\ (TruthyNum(filters["minYear"]) \/ TruthyNum(filters["maxYear"]))) =>
         Has(params, "year>>") /\ Has(params, "year<<")
    /\ (~TruthyNum(filters["decade"]) /\ ~TruthyNum(filters["minYear"])
          /\ ~TruthyNum(filters["maxYear"]) /\ TruthyNum(filters["year"])) =>
         Has(params, "year") /\ params["year"] = filters["year"][1]

\* C2: a structured filter with decade=D compiles to year>>=D and year<<=D+9
\* and to no exact year key, whatever year, minYear and maxYear are.
C2_DecadeRange ==
  (Compiled /\ tool = "advanced_search" /\ filters["decade"] # Undefined) =>
    /\ Has(params, "year>>") /\ params["year>>"] = filters["decade"][1]
    /\ Has(params, "year<<") /\ params["year<<"] = filters["decade"][1] + 9
    /\ ~Has(params, "year")

\* C3: a free text with "before YYYY" compiles to year<< = YYYY-1 and
\* one with "after YYYY" to year>> = YYYY+1, whatever other year signals it has.
C3_BeforeAfterBounds ==
  SmartCompiled =>
    LET text == LowerQuery
        bm == beforeMatch(text)
        am == afterMatch(text)
    IN  /\ bm # Undefined =>
             Has(params, "year<<") /\ params["year<<"] = parseInt(bm[1]) - 1
        /\ am # Undefined =>
             Has(params, "year>>") /\ params["year>>"] = parseInt(am[1]) + 1

\* C3, narrowed: in a free text that the decade pattern does not match, the first
\* "before YYYY" with YYYY other than 0001 compiles to year<< = YYYY-1 and the
\* first "after YYYY" to year>> = YYYY+1, whatever "from YYYY" or bare year the
\* text holds.
C3_BeforeAfterBoundsWithoutDecade ==
  SmartCompiled =>
    LET text == LowerQuery
        bm == beforeMatch(text)
        am == afterMatch(text)
    IN  decadeMatch(text) = Undefined =>
          /\ (bm # Undefined /\ parseInt(bm[1]) # 1) =>
               Has(params, "year<<") /\ params["year<<"] = parseInt(bm[1]) - 1
          /\ am # Undefined =>
               Has(params, "year>>") /\ params["year>>"] = parseInt(am[1]) + 1

C3_Witness ==
  /\ Compiled /\ tool = "smart_search"
  /\ decadeMatch(LowerQuery) = Undefined
  /\ yearMatch(LowerQuery) # Undefined
  /\ beforeMatch(LowerQuery) = Some(<<"1", "9", "9", "5">>)
  /\ params["year<<"] = 1994

\* C4: every integer minDuration=M compiles to duration>> = M*60000
\* and every integer maxDuration=M to duration<< = M*60000.
C4_DurationExact ==
  Compiled =>
    /\ filters["minDuration"] # Undefined =>
         /\ Has(params, "duration>>")
         /\ params["duration>>"] = filters["minDuration"][1] * 60000
    /\ filters["maxDuration"] # Undefined =>
         /\ Has(params, "duration<<")
         /\ params["duration<<"] = filters["maxDuration"][1] * 60000

\* C4, narrowed: every integer minDuration=M other than 0 compiles to
\* duration>> = M*60000 and every integer maxDuration=M other than 0 to
\* duration<< = M*60000.
C4_DurationExactNonZero ==
  Compiled =>
    /\ (filters["minDuration"] # Undefined /\ filters["minDuration"][1] # 0) =>
         /\ Has(params, "duration>>")
         /\ params["duration>>"] = filters["minDuration"][1] * 60000
    /\ (filters["maxDuration"] # Undefined /\ filters["maxDuration"][1] # 0) =>
         /\ Has(params, "duration<<")
         /\ params["duration<<"] = filters["maxDuration"][1] * 60000

C4_Witness ==
  /\ Compiled
  /\ filters["minDuration"] = Some(90) /\ filters["maxDuration"] = Some(150)
  /\ params["duration>>"] = 5400000 /\ params["duration<<"] = 9000000

SectionDecided ==
  /\ pc \in {"awaitBackend", "done"}
  /\ response \notin {Some(e) : e \in TransportErrors} \/ Compiled

NoFamilySection ==
  /\ sections # Undefined
  /\ \A i \in 1..Len(sections[1]) :
       sections[1][i].type # WantedSectionType(filters["type"])

FirstOfFamily(list, t) ==
  list[Min({i \in 1..Len(list) : list[i].type = WantedSectionType(t)})].key

\* C7: a supplied sectionId is the target and the section list is not
\* consulted; with none supplied the target is the key of the first listed
\* section of the filter type's family.
C7_SectionResolution ==
  Compiled =>
    IF filters["sectionId"] # Undefined
      THEN /\ sectionId = filters["sectionId"]
           /\ request[1].section = filters["sectionId"][1]
           /\ ~consulted /\ sections = Undefined
      ELSE /\ consulted /\ sections # Undefined
           /\ sectionId = Some(FirstOfFamily(sections[1], filters["type"]))
           /\ request[1].section = sectionId[1]

\* C7, narrowed: a supplied non-empty sectionId is the target and the section
\* list is not consulted; with none or an empty one supplied the target is the
\* key of the first listed section of the filter type's family.
C7_SectionResolutionNonEmpty ==
  Compiled =>
    IF TruthyWord(filters["sectionId"])
      THEN /\ sectionId = filters["sectionId"]
           /\ request[1].section = filters["sectionId"][1]
           /\ ~consulted /\ sections = Undefined
      ELSE /\ consulted /\ sections # Undefined
           /\ sectionId = Some(FirstOfFamily(sections[1], filters["type"]))
           /\ request[1].section = sectionId[1]

C7_Witness ==
  /\ Compiled
  /\ ~TruthyWord(filters["sectionId"])
  /\ sections # Undefined /\ Len(sections[1]) = 2
  /\ sections[1][1].type = WantedSectionType(filters["type"])
  /\ sections[1][2].type = WantedSectionType(filters["type"])
  /\ sectionId = Some(sections[1][1].key)

\* the phrases of the watch-status block that the query holds
HasUnwatchedPhrase ==
  AnyOf(LowerQuery, {<<"u", "n", "w", "a", "t", "c", "h", "e", "d">>, <<"n", "o", "t", " ", "w", "a", "t", "c", "h", "e", "d">>, <<"h", "a", "v", "e", "n", "'", "t", " ", "w", "a", "t", "c", "h", "e", "d">>})

HasInProgressPhrase ==
  AnyOf(LowerQuery, {<<"i", "n", " ", "p", "r", "o", "g", "r", "e", "s", "s">>, <<"c", "o", "n", "t", "i", "n", "u", "e">>, <<"s", "t", "a", "r", "t", "e", "d">>})

\* C8: a text with an unwatched phrase, the word "watched" and an
\* in-progress phrase is extracted to unwatched, watched and inProgress all true.
C8_AllThreeFlags ==
  (ExtractorReturned /\ HasUnwatchedPhrase /\ HasInProgressPhrase
     /\ includes(LowerQuery, <<"w", "a", "t", "c", "h", "e", "d">>)) =>
    /\ extracted["unwatched"] = Some(TRUE)
    /\ extracted["watched"] = Some(TRUE)
    /\ extracted["inProgress"] = Some(TRUE)

\* C8, narrowed: the Extractor never returns unwatched and watched together; it
\* sets inProgress independently of both, so a text with an unwatched phrase
\* (which holds the word "watched") and an in-progress phrase is extracted to
\* unwatched and inProgress true and watched unset.
C8_WatchedExcludesUnwatched ==
  ExtractorReturned =>
    /\ ~(extracted["unwatched"] = Some(TRUE) /\ extracted["watched"] = Some(TRUE))
    /\ extracted["inProgress"] = Some(TRUE) <=> HasInProgressPhrase
    /\ (HasUnwatchedPhrase /\ HasInProgressPhrase) =>
         /\ extracted["unwatched"] = Some(TRUE)
         /\ extracted["watched"] = Undefined
         /\ extracted["inProgress"] = Some(TRUE)

C8_Witness ==
  /\ tool = "smart_search"
  /\ includes(LowerQuery, <<"n", "o", "t", " ", "w", "a", "t", "c", "h", "e", "d">>) /\ HasInProgressPhrase
  /\ extracted["unwatched"] = Some(TRUE)
  /\ extracted["inProgress"] = Some(TRUE)
  /\ extracted["watched"] = Undefined

\* C9: the Compiler maps the watch flags one by one: unwatched=true to
\* unwatched=1, watched=true to viewCount>>=0, inProgress=true to inProgress=1,
\* each whatever the other two are; a false or absent flag emits no key.
C9_WatchFlagsIndependent ==
  Compiled =>
    /\ Has(params, "unwatched") <=> filters["unwatched"] = Some(TRUE)
    /\ Has(params, "unwatched") => params["unwatched"] = 1
    /\ Has(params, "viewCount>>") <=> filters["watched"] = Some(TRUE)
    /\ Has(params, "viewCount>>") => params["viewCount>>"] = 0
    /\ Has(params, "inProgress") <=> filters["inProgress"] = Some(TRUE)
    /\ Has(params, "inProgress") => params["inProgress"] = 1

C9_Witness ==
  /\ Compiled
  /\ filters["unwatched"] = Some(TRUE) /\ filters["watched"] = Some(TRUE)
  /\ filters["inProgress"] = Some(FALSE)
  /\ params["unwatched"] = 1 /\ params["viewCount>>"] = 0
  /\ ~Has(params, "inProgress")

\* C10: "movies rated above 7" is extracted to exactly {type: movie,
\* minRating: 7} and, with the default limit, compiled to type=1, rating>>=7,
\* sort="titleSort:asc", window start 0 and size 25.
C10_MoviesRatedAbove7 ==
  (tool = "smart_search" /\ query = <<"m", "o", "v", "i", "e", "s", " ", "r", "a", "t", "e", "d", " ", "a", "b", "o", "v", "e", " ", "7">>
     /\ filters["limit"] = Some(DefaultLimit)) =>
    /\ extracted = [NoFilters EXCEPT !["type"] = Some("movie"),
                                     !["minRating"] = Some(Num(7, <<>>))]
    /\ Compiled =>
         /\ params["type"] = 1
         /\ Has(params, "rating>>") /\ params["rating>>"] = Num(7, <<>>)
         /\ params["sort"] = "titleSort:asc"
         /\ params["X-Plex-Container-Start"] = 0
         /\ params["X-Plex-Container-Size"] = 25

\* the text holds none of the Extractor's sort phrases
NoSortPhrase ==
  ~AnyOf(LowerQuery, {<<"b", "e", "s", "t">>, <<"t", "o", "p", " ", "r", "a", "t", "e", "d">>, <<"h", "i", "g", "h", "e", "s", "t", " ", "r", "a", "t", "e", "d">>, <<"n", "e", "w", "e", "s", "t">>,
                      <<"l", "a", "t", "e", "s", "t">>, <<"r", "e", "c", "e", "n", "t">>, <<"o", "l", "d", "e", "s", "t">>, <<"r", "a", "n", "d", "o", "m">>, <<"s", "u", "r", "p", "r", "i", "s", "e">>})

\* every sort string of direction asc, and of direction desc
AscendingSorts ==
  {fld \o ":asc" : fld \in sortMap \cup {MemberText(k) : k \in ObjectPrototype}}

DescendingSorts ==
  {fld \o ":desc" : fld \in sortMap \cup {MemberText(k) : k \in ObjectPrototype}}

C12_WindowIsLimit ==
  Compiled =>
    /\ params["X-Plex-Container-Start"] = 0
    /\ args["limit"] # Undefined => params["X-Plex-Container-Size"] = args["limit"][1]
    /\ args["limit"] = Undefined => params["X-Plex-Container-Size"] = 25

\* C12, narrowed: every compiled query has the window start 0 and size = limit
\* for every numeric limit supplied other than 0, negative ones included; with
\* no limit supplied, or the limit 0, the size is 25.
C12_WindowIsNonZeroLimit ==
  Compiled =>
    /\ params["X-Plex-Container-Start"] = 0
    /\ TruthyNum(args["limit"]) => params["X-Plex-Container-Size"] = args["limit"][1]
    /\ ~TruthyNum(args["limit"]) => params["X-Plex-Container-Size"] = 25

C12_Witness ==
  /\ Compiled
  /\ args["limit"] = Some(-1)
  /\ params["X-Plex-Container-Start"] = 0
  /\ params["X-Plex-Container-Size"] = -1

\* the call has the filter and the section list of the remembered call
SameCall ==
  /\ earlier # Undefined
  /\ pc \in {"awaitBackend", "done"}
  /\ sectionId # Undefined \/ response = Some(SectionError)
  /\ filters = earlier[1].filters
  /\ sections = earlier[1].sections

\* the parameters of filter f that are computed from the clock
ClockDependent(f) ==
  \/ TruthyNum(f["addedWithin"])
  \/ TruthyNum(f["minYear"]) /\ ~TruthyNum(f["maxYear"]) /\ ~TruthyNum(f["decade"])

C14_BareYearSuppressed ==
  ExtractorReturned =>
    LET text == LowerQuery
        bare == exactYearMatch(text)
    IN  /\ ~(extracted["year"] # Undefined /\ extracted["decade"] # Undefined)
        /\ yearMatch(text) # Undefined => extracted["year"] = Undefined
        /\ extracted["year"] # Undefined =>
             /\ extracted["year"][1] \in 1900..2029
             /\ bare # Undefined
             /\ extracted["year"][1] = parseInt(bare[1])

C14_Witness ==
  /\ tool = "smart_search"
  /\ query = <<"f", "r", "o", "m", " ", "1", "9", "8", "5", " ", "2", "0", "0", "1">>
  /\ extracted["minYear"] = Some(1985)
  /\ extracted["year"] = Undefined

\* two digits followed by "s" stand at position i of text s
DigitsThenS(s, i) ==
  /\ i + 2 <= Len(s)
  /\ s[i] \in Digits /\ s[i + 1] \in Digits /\ s[i + 2] = "s"

\* the "s" at position i + 2 is followed by whitespace or ends the text
EndsWord(s, i) == i + 2 = Len(s) \/ IsSpace(s[i + 3])

\* the decade of the two digits at position i of text s
DecadeFormula(s, i) ==
  LET dd == 10 * DigitVal(s[i]) + DigitVal(s[i + 1])
  IN  IF dd < 30 THEN 2000 + dd * 10 ELSE 1900 + dd * 10

ListedGenres ==
  <<<<"a", "c", "t", "i", "o", "n">>, <<"a", "d", "v", "e", "n", "t", "u", "r", "e">>, <<"a", "n", "i", "m", "a", "t", "i", "o", "n">>, <<"a", "n", "i", "m", "e">>, <<"b", "i", "o", "g", "r", "a", "p", "h", "y">>,
    <<"c", "o", "m", "e", "d", "y">>, <<"c", "r", "i", "m", "e">>, <<"d", "o", "c", "u", "m", "e", "n", "t", "a", "r", "y">>, <<"d", "r", "a", "m", "a">>, <<"f", "a", "m", "i", "l", "y">>,
    <<"f", "a", "n", "t", "a", "s", "y">>, <<"f", "i", "l", "m", "-", "n", "o", "i", "r">>, <<"h", "i", "s", "t", "o", "r", "y">>, <<"h", "o", "r", "r", "o", "r">>, <<"m", "u", "s", "i", "c", "a", "l">>,
    <<"m", "y", "s", "t", "e", "r", "y">>, <<"r", "o", "m", "a", "n", "c", "e">>, <<"s", "c", "i", "-", "f", "i">>, <<"s", "c", "i", "e", "n", "c", "e", " ", "f", "i", "c", "t", "i", "o", "n">>, <<"s", "p", "o", "r", "t">>,
    <<"t", "h", "r", "i", "l", "l", "e", "r">>, <<"w", "a", "r">>, <<"w", "e", "s", "t", "e", "r", "n">>>>

ReturnedGenre(g) == IF g = <<"s", "c", "i", "e", "n", "c", "e", " ", "f", "i", "c", "t", "i", "o", "n">> THEN <<"s", "c", "i", "-", "f", "i">> ELSE g

\* C16: the Extractor returns at most one genre: the first entry of the
\* ordered genre list that the lower-cased text contains, wherever the
\* keywords stand in the text, "science fiction" being returned as "sci-fi".
C16_FirstListedGenre ==
  ExtractorReturned =>
    LET text == LowerQuery
        hits == {j \in 1..Len(ListedGenres) : includes(text, ListedGenres[j])}
    IN  IF hits = {} THEN extracted["genre"] = Undefined
        ELSE extracted["genre"] = Some(ReturnedGenre(ListedGenres[Min(hits)]))

C16_Witness ==
  /\ tool = "smart_search"
  /\ query = <<"w", "e", "s", "t", "e", "r", "n", " ", "s", "c", "i", "e", "n", "c", "e", " ", "f", "i", "c", "t", "i", "o", "n">>
  /\ extracted["genre"] = Some(<<"s", "c", "i", "-", "f", "i">>)

\* the content-rating list: each entry hyphenated, with a space, and as returned
ListedRatings ==
  <<<<<<"g">>, <<"g">>, <<"G">>>>, <<<<"p", "g">>, <<"p", "g">>, <<"P", "G">>>>,
    <<<<"p", "g", "-", "1", "3">>, <<"p", "g", " ", "1", "3">>, <<"P", "G", "-", "1", "3">>>>, <<<<"r">>, <<"r">>, <<"R">>>>,
    <<<<"n", "c", "-", "1", "7">>, <<"n", "c", " ", "1", "7">>, <<"N", "C", "-", "1", "7">>>>, <<<<"t", "v", "-", "y">>, <<"t", "v", " ", "y">>, <<"T", "V", "-", "Y">>>>,
    <<<<"t", "v", "-", "y", "7">>, <<"t", "v", " ", "y", "7">>, <<"T", "V", "-", "Y", "7">>>>, <<<<"t", "v", "-", "g">>, <<"t", "v", " ", "g">>, <<"T", "V", "-", "G">>>>,
    <<<<"t", "v", "-", "p", "g">>, <<"t", "v", " ", "p", "g">>, <<"T", "V", "-", "P", "G">>>>, <<<<"t", "v", "-", "1", "4">>, <<"t", "v", " ", "1", "4">>, <<"T", "V", "-", "1", "4">>>>,
    <<<<"t", "v", "-", "m", "a">>, <<"t", "v", " ", "m", "a">>, <<"T", "V", "-", "M", "A">>>>>>

\* C17: the Extractor returns, upper-cased and hyphenated, the first entry of
\* the ordered content-rating list that the lower-cased text contains either
\* hyphenated or with the hyphen replaced by a space, and leaves contentRating
\* unset when the text contains no entry.
C17_FirstListedContentRating ==
  ExtractorReturned =>
    LET text == LowerQuery
        hits == {j \in 1..Len(ListedRatings) :
                   \/ includes(text, ListedRatings[j][1])
                   \/ includes(text, ListedRatings[j][2])}
    IN  IF hits = {} THEN extracted["contentRating"] = Undefined
        ELSE extracted["contentRating"] = Some(ListedRatings[Min(hits)][3])

C17_Witness ==
  /\ tool = "smart_search"
  /\ query = <<"t", "v", " ", "1", "4", " ", "n", "c", "-", "1", "7">>
  /\ extracted["contentRating"] = Some(<<"N", "C", "-", "1", "7">>)

\* C18: with only maxYear given the query has year>>=1800 and year<<=maxYear;
\* with only minYear given, year>>=minYear and year<<=the current calendar
\* year; with both given, year>>=minYear and year<<=maxYear, in no other order.
C18_YearBoundDefaults ==
  Compiled =>
    LET min == filters["minYear"]
        max == filters["maxYear"]
    IN  /\ (min = Undefined /\ max # Undefined) =>
             /\ Has(params, "year>>") /\ params["year>>"] = 1800
             /\ Has(params, "year<<") /\ params["year<<"] = max[1]
        /\ (min # Undefined /\ max = Undefined) =>
             /\ Has(params, "year>>") /\ params["year>>"] = min[1]
             /\ Has(params, "year<<") /\ params["year<<"] = clock[1].year
        /\ (min # Undefined /\ max # Undefined) =>
             /\ Has(params, "year>>") /\ params["year>>"] = min[1]
             /\ Has(params, "year<<") /\ params["year<<"] = max[1]

\* C18, narrowed: in a filter with no decade (or decade 0), a bound being
\* given when it is set and not 0: with only maxYear given the query has
\* year>>=1800 and year<<=maxYear; with only minYear given, year>>=minYear and
\* year<<=the current calendar year; with both given, year>>=minYear and
\* year<<=maxYear, in no other order; with neither, no range.
C18_YearBoundDefaultsWithoutDecade ==
  (Compiled /\ ~TruthyNum(filters["decade"])) =>
    LET min == filters["minYear"]
        max == filters["maxYear"]
    IN  /\ (~TruthyNum(min) /\ TruthyNum(max)) =>
             /\ Has(params, "year>>") /\ params["year>>"] = 1800
             /\ Has(params, "year<<") /\ params["year<<"] = max[1]
        /\ (TruthyNum(min) /\ ~TruthyNum(max)) =>
             /\ Has(params, "year>>") /\ params["year>>"] = min[1]
             /\ Has(params, "year<<") /\ params["year<<"] = clock[1].year
        /\ (TruthyNum(min) /\ TruthyNum(max)) =>
             /\ Has(params, "year>>") /\ params["year>>"] = min[1]
             /\ Has(params, "year<<") /\ params["year<<"] = max[1]
        /\ (~TruthyNum(min) /\ ~TruthyNum(max)) =>
             ~Has(params, "year>>") /\ ~Has(params, "year<<")

C18_Witness ==
  /\ Compiled
  /\ filters["decade"] = Undefined
  /\ filters["minYear"] = Some(2005) /\ filters["maxYear"] = Some(1999)
  /\ params["year>>"] = 2005 /\ params["year<<"] = 1999

\* the table of type codes
ListedTypeCode ==
  [movie |-> 1, show |-> 2, season |-> 3, episode |-> 4, trailer |-> 5,
   comic |-> 6, person |-> 7, artist |-> 8, album |-> 9, track |-> 10,
   photo |-> 11, clip |-> 12, photo_album |-> 13]

\* the code of an optional type: that of the table, 1 for any other
TypeCodeOr1(t) ==
  IF t # Undefined /\ t[1] \in DOMAIN ListedTypeCode THEN ListedTypeCode[t[1]] ELSE 1

\* the text holds none of the Extractor's media-type keywords
NoTypeKeyword ==
  ~AnyOf(LowerQuery, {<<"m", "o", "v", "i", "e">>, <<"f", "i", "l", "m">>, <<"s", "h", "o", "w">>, <<"s", "e", "r", "i", "e", "s">>, <<"t", "v">>, <<"e", "p", "i", "s", "o", "d", "e">>})

C20_AddedAtBound ==
  (Compiled /\ filters["addedWithin"] # Undefined) =>
    /\ Has(params, "addedAt>>")
    /\ params["addedAt>>"] =
         clock[1].sec - filters["addedWithin"][1] * 86400 + (clock[1].ms \div 1000)

\* C20, narrowed: for every addedWithin=N other than 0, negative ones
\* included, the compiled query has
\* addedAt>> = floor((now_ms - N*86400000)/1000); with addedWithin 0 or
\* absent it has no addedAt>> key.
C20_AddedAtBoundNonZero ==
  Compiled =>
    IF TruthyNum(filters["addedWithin"])
      THEN /\ Has(params, "addedAt>>")
           /\ params["addedAt>>"] =
                clock[1].sec - filters["addedWithin"][1] * 86400
                  + (clock[1].ms \div 1000)
      ELSE ~Has(params, "addedAt>>")

C20_Witness ==
  /\ Compiled
  /\ filters["addedWithin"] = Some(7)
  /\ clock[1].ms = 999
  /\ params["addedAt>>"] = 1766620799

----------------------------------------------------------------------------
\* C21: the Extractor sets resolution 4k when the text contains "4k" or
\* "uhd", else hd when it contains "hd", else leaves it unset, and never
\* produces sd; the Compiler emits videoResolution "4k" for 4k, "1080" for hd
\* and no videoResolution key for sd.
C21_Resolution ==
  /\ ExtractorReturned =>
       LET text == LowerQuery
       IN  /\ extracted["resolution"] =
                IF includes(text, <<"4", "k">>) \/ includes(text, <<"u", "h", "d">>)
                  THEN Some("4k")
                ELSE IF includes(text, <<"h", "d">>) THEN Some("hd")
                ELSE Undefined
           /\ extracted["resolution"] # Some("sd")
  /\ Compiled =>
       /\ filters["resolution"] = Some("4k") =>
            Has(params, "videoResolution") /\ params["videoResolution"] = "4k"
       /\ filters["resolution"] = Some("hd") =>
            Has(params, "videoResolution") /\ params["videoResolution"] = "1080"
       /\ filters["resolution"] = Some("sd") => ~Has(params, "videoResolution")

C21_Witness ==
  /\ SmartCompiled
  /\ includes(LowerQuery, <<"u", "h", "d">>)
  /\ includes(LowerQuery, <<"h", "d">>)
  /\ params["videoResolution"] = "4k"

----------------------------------------------------------------------------
\* the sort intents in their order of precedence
SortIntents ==
  <<[words |-> {<<"b", "e", "s", "t">>, <<"t", "o", "p", " ", "r", "a", "t", "e", "d">>, <<"h", "i", "g", "h", "e", "s", "t", " ", "r", "a", "t", "e", "d">>},
     sort |-> Some("rating"), sortOrder |-> Some("desc")],
    [words |-> {<<"n", "e", "w", "e", "s", "t">>, <<"l", "a", "t", "e", "s", "t">>, <<"r", "e", "c", "e", "n", "t">>},
     sort |-> Some("addedAt"), sortOrder |-> Some("desc")],
    [words |-> {<<"o", "l", "d", "e", "s", "t">>},
     sort |-> Some("year"), sortOrder |-> Some("asc")],
    [words |-> {<<"r", "a", "n", "d", "o", "m">>, <<"s", "u", "r", "p", "r", "i", "s", "e">>},
     sort |-> Some("random"), sortOrder |-> Undefined]>>

\* C22: sort intent is extracted by a fixed precedence, first match wins:
\* best / top rated / highest rated gives rating, desc; else newest / latest /
\* recent gives addedAt, desc; else oldest gives year, asc; else random /
\* surprise gives random with sortOrder unset; else neither field is set.
\* "top rated comedy shows" compiles to type 2, genre comedy, sort rating:desc.
C22_SortIntentPrecedence ==
  /\ ExtractorReturned =>
       LET text == LowerQuery
           hits == {i \in DOMAIN SortIntents : AnyOf(text, SortIntents[i].words)}
       IN  IF hits = {}
             THEN extracted["sort"] = Undefined /\ extracted["sortOrder"] = Undefined
             ELSE \E i \in hits :
                    /\ \A j \in hits : i <= j
                    /\ extracted["sort"] = SortIntents[i].sort
                    /\ extracted["sortOrder"] = SortIntents[i].sortOrder
  /\ (SmartCompiled /\ query = <<"t", "o", "p", " ", "r", "a", "t", "e", "d", " ", "c", "o", "m", "e", "d", "y", " ", "s", "h", "o", "w", "s">>) =>
       /\ params["type"] = 2
       /\ Has(params, "genre") /\ params["genre"] = <<"c", "o", "m", "e", "d", "y">>
       /\ params["sort"] = "rating:desc"

C22_Witness ==
  /\ SmartCompiled
  /\ includes(LowerQuery, <<"n", "e", "w", "e", "s", "t">>)
  /\ includes(LowerQuery, <<"b", "e", "s", "t">>)
  /\ params["sort"] = "rating:desc"

----------------------------------------------------------------------------
\* the counts and the units a recency phrase is written with
RecencyCounts ==
  {[text |-> <<>>, n |-> 1], [text |-> <<"0">>, n |-> 0],
   [text |-> <<"2">>, n |-> 2], [text |-> <<"3">>, n |-> 3]}

RecencyUnits ==
  {[text |-> <<"d", "a", "y">>, days |-> 1], [text |-> <<"w", "e", "e", "k">>, days |-> 7],
   [text |-> <<"m", "o", "n", "t", "h">>, days |-> 30]}

\* the recency phrases (added|new) [in] [the] [last|past] [N] (day|week|month)
\* written with single spaces, each with the days it stands for
RecencyForms ==
  {[text |-> Join(SelectSeq(<<h, i, t, l, c.text, u.text>>,
                            LAMBDA part : part # <<>>)),
    days |-> c.n * u.days] :
     h \in {<<"a", "d", "d", "e", "d">>, <<"n", "e", "w">>}, i \in {<<>>, <<"i", "n">>}, t \in {<<>>, <<"t", "h", "e">>},
     l \in {<<>>, <<"l", "a", "s", "t">>, <<"p", "a", "s", "t">>}, c \in RecencyCounts, u \in RecencyUnits}

\* C23: when the text matches the pattern (added|new) [in] [the] [last|past]
\* [N] (day|week|month), addedWithin is N (1 when no count is written) times
\* 1, 7 or 30 for day, week or month; when the pattern does not match but the
\* text contains "recently added" or "new", addedWithin is 7; otherwise
\* addedWithin is unset.
C23_RecencyExtraction ==
  ExtractorReturned =>
    LET text == LowerQuery
        starts == {j \in 1..Len(text) :
                     /\ StartsAt(text, j, <<"a", "d", "d", "e", "d">>) \/ StartsAt(text, j, <<"n", "e", "w">>)
                     /\ \E f \in RecencyForms : StartsAt(text, j, f.text)}
    IN  IF starts # {}
          THEN \E f \in RecencyForms :
                 /\ StartsAt(text, Min(starts), f.text)
                 /\ extracted["addedWithin"] = Some(f.days)
        ELSE IF includes(text, <<"r", "e", "c", "e", "n", "t", "l", "y", " ", "a", "d", "d", "e", "d">>) \/ includes(text, <<"n", "e", "w">>)
          THEN extracted["addedWithin"] = Some(7)
        ELSE extracted["addedWithin"] = Undefined

C23_Witness ==
  /\ ExtractorReturned
  /\ includes(LowerQuery, <<"n", "e", "w", "e", "s", "t">>)
  /\ includes(LowerQuery, <<"a", "d", "d", "e", "d", " ", "p", "a", "s", "t", " ", "2", " ", "w", "e", "e", "k", "s">>)
  /\ extracted["addedWithin"] = Some(14)

----------------------------------------------------------------------------
\* the amounts a duration phrase is written with
DurationAmounts ==
  {[text |-> <<"2">>, n |-> 2], [text |-> <<"3">>, n |-> 3],
   [text |-> <<"6", "0">>, n |-> 60], [text |-> <<"1", "0", "0">>, n |-> 100]}

\* the phrases "<word> N min" and "<word> N hour", each with its N
AmountForms(word) ==
  {[text |-> Join(<<word, a.text, u>>), n |-> a.n] :
     a \in DurationAmounts, u \in {<<"m", "i", "n">>, <<"h", "o", "u", "r">>}}

UnderForms == AmountForms(<<"u", "n", "d", "e", "r">>)

OverForms == AmountForms(<<"o", "v", "e", "r">>)

\* the amounts of the phrases of a set that the text contains
AmountsIn(text, forms) == {f.n : f \in {g \in forms : includes(text, g.text)}}

\* C24: text containing "under N min" or "under N hour" sets maxDuration = N
\* and text containing "short" without such a phrase sets maxDuration = 90;
\* "over N min" or "over N hour" sets minDuration = N and "long" without such
\* a phrase sets minDuration = 120.  Whenever the text contains an
\* "under N (min|hour)" phrase the extracted maxDuration is that N, and
\* likewise minDuration for "over N (min|hour)".
C24_DurationExtraction ==
  ExtractorReturned =>
    LET text == LowerQuery
        under == AmountsIn(text, UnderForms)
        over == AmountsIn(text, OverForms)
    IN  /\ under # {} => \E n \in under : extracted["maxDuration"] = Some(n)
        /\ (under = {} /\ includes(text, <<"s", "h", "o", "r", "t">>)) =>
             extracted["maxDuration"] = Some(90)
        /\ over # {} => \E n \in over : extracted["minDuration"] = Some(n)
        /\ (over = {} /\ includes(text, <<"l", "o", "n", "g">>)) =>
             extracted["minDuration"] = Some(120)

----------------------------------------------------------------------------
\* C25: in every compiled query the range keys year>> and year<< are either
\* both present or both absent: no filter combination (decade, minYear only,
\* maxYear only, both, none) produces a one-sided year range.
C25_YearRangeTwoSided ==
  Compiled => (Has(params, "year>>") <=> Has(params, "year<<"))

C25_Witness ==
  /\ Compiled
  /\ filters["decade"] = Undefined
  /\ filters["minYear"] = Undefined
  /\ filters["maxYear"] = Some(1999)
  /\ Has(params, "year>>") /\ Has(params, "year<<")

----------------------------------------------------------------------------
\* the four digits that follow the word w standing at position j of text s
YearAfterWord(s, j, w) ==
  LET d == SkipSpaces(s, j + Len(w)) IN parseInt(SubSeq(s, d, d + 3))

\* the years an exact year can be
ExactYears == 1900..2029

\* the text has neither a decade pattern nor a "from YYYY"
NoDecadeNoFrom(text) == decadeMatch(text) = Undefined /\ yearMatch(text) = Undefined

\* C26: a free-text query "before YYYY" (or "after YYYY") with YYYY in
\* 1900..2029, no decade pattern and no "from YYYY" also sets the exact year
\* to YYYY: the query compiled by smart search has the exact key year = YYYY
\* together with year<< = YYYY-1 (resp. year>> = YYYY+1).
C26_BoundAlsoExactYear ==
  SmartCompiled =>
    LET text == LowerQuery
    IN  NoDecadeNoFrom(text) =>
          \A j \in 1..Len(text) :
            /\ (WordYearAt(text, j, <<"b", "e", "f", "o", "r", "e">>)
                  /\ YearAfterWord(text, j, <<"b", "e", "f", "o", "r", "e">>) \in ExactYears) =>
                 /\ Has(params, "year") /\ Has(params, "year<<")
                 /\ params["year"] = YearAfterWord(text, j, <<"b", "e", "f", "o", "r", "e">>)
                 /\ params["year<<"] = YearAfterWord(text, j, <<"b", "e", "f", "o", "r", "e">>) - 1
            /\ (WordYearAt(text, j, <<"a", "f", "t", "e", "r">>)
                  /\ YearAfterWord(text, j, <<"a", "f", "t", "e", "r">>) \in ExactYears) =>
                 /\ Has(params, "year") /\ Has(params, "year>>")
                 /\ params["year"] = YearAfterWord(text, j, <<"a", "f", "t", "e", "r">>)
                 /\ params["year>>"] = YearAfterWord(text, j, <<"a", "f", "t", "e", "r">>) + 1

\* C26, narrowed: in such a text the exact year is the first year of
\* 1900..2029 written in the text and each bound comes from the first
\* "before" (resp. "after") phrase: the compiled query has the key year
\* together with year<< = YYYY-1 (resp. year>> = YYYY+1) for that first
\* phrase, so that year = YYYY when no other year is written before YYYY.
\* The Extractor's part is stated where it returns, the Compiler's part where
\* the extracted filter has been compiled.
C26_BoundAlsoFirstYear ==
  /\ ExtractorReturned =>
       LET text == LowerQuery
           em == exactYearMatch(text)
           bm == beforeMatch(text)
           am == afterMatch(text)
       IN  NoDecadeNoFrom(text) =>
             /\ (bm # Undefined /\ parseInt(bm[1]) \in ExactYears) =>
                  /\ em # Undefined
                  /\ extracted["year"] = Some(parseInt(em[1]))
                  /\ extracted["maxYear"] = Some(parseInt(bm[1]) - 1)
             /\ (am # Undefined /\ parseInt(am[1]) \in ExactYears) =>
                  /\ em # Undefined
                  /\ extracted["year"] = Some(parseInt(em[1]))
                  /\ extracted["minYear"] = Some(parseInt(am[1]) + 1)
  /\ (SmartCompiled /\ extracted["decade"] = Undefined) =>
       /\ TruthyNum(extracted["year"]) =>
            Has(params, "year") /\ params["year"] = extracted["year"][1]
       /\ TruthyNum(extracted["maxYear"]) =>
            Has(params, "year<<") /\ params["year<<"] = extracted["maxYear"][1]
       /\ TruthyNum(extracted["minYear"]) =>
            Has(params, "year>>") /\ params["year>>"] = extracted["minYear"][1]

C26_Witness ==
  /\ SmartCompiled
  /\ query = <<"b", "e", "f", "o", "r", "e", " ", "1", "9", "9", "5">>
  /\ extracted["year"] = Some(1995)
  /\ params["year"] = 1995
  /\ params["year<<"] = 1994

----------------------------------------------------------------------------
\* the fields by the kind of value they hold
NumberFields ==
  {"year", "minYear", "maxYear", "decade", "minDuration", "maxDuration",
   "addedWithin", "limit"}

DecimalFields == {"minRating", "maxRating"}

TextFields == {"title", "genre", "contentRating", "director", "actor", "studio"}

FlagFields == {"unwatched", "watched", "inProgress"}

\* the field k of filter f holds 0, an empty string or false
Falsy(f, k) ==
  /\ f[k] # Undefined
  /\ \/ k \in NumberFields /\ f[k][1] = 0
     \/ k \in DecimalFields /\ f[k][1] = Num(0, <<>>)
     \/ k \in TextFields /\ f[k][1] = <<>>
     \/ k \in FlagFields /\ f[k][1] = FALSE
     \/ k = "sectionId" /\ f[k][1] = ""

\* the filter f with every such field left out
WithoutFalsy(f) == [k \in FilterFields |-> IF Falsy(f, k) THEN Undefined ELSE f[k]]

\* the parameter key a field is emitted under by itself
OwnKey ==
  [title |-> "title", year |-> "year", minRating |-> "rating>>",
   maxRating |-> "rating<<", genre |-> "genre",
   contentRating |-> "contentRating", director |-> "director",
   actor |-> "actor", studio |-> "studio", unwatched |-> "unwatched",
   watched |-> "viewCount>>", inProgress |-> "inProgress",
   minDuration |-> "duration>>", maxDuration |-> "duration<<",
   addedWithin |-> "addedAt>>"]

\* C27: the Compiler emits a filter key only for a truthy field value: a
\* numeric field equal to 0, an empty string or a false flag leaves the
\* compiled parameters exactly as if the field were absent (an empty sectionId
\* leaves the section to be resolved from the type), and limit = 0 compiles
\* to size 25.
C27_FalsyAsAbsent ==
  (pc = "awaitBackend" /\ \E k \in FilterFields : Falsy(filters, k)) =>
    /\ params = BuildParams(WithoutFalsy(filters), clock[1])
    /\ \A k \in DOMAIN OwnKey : Falsy(filters, k) => ~Has(params, OwnKey[k])
    /\ (\A k \in {"minYear", "maxYear", "decade"} :
          filters[k] = Undefined \/ Falsy(filters, k)) =>
         ~Has(params, "year>>") /\ ~Has(params, "year<<")
    /\ Falsy(filters, "sectionId") =>
         /\ consulted /\ sections # Undefined
         /\ sectionId = SectionForType(WithoutFalsy(filters), sections[1])
    /\ Falsy(filters, "limit") => params["X-Plex-Container-Size"] = DefaultLimit

C27_Witness ==
  /\ pc = "awaitBackend"
  /\ Falsy(filters, "minRating") /\ Falsy(filters, "addedWithin")
  /\ ~Has(params, "rating>>") /\ ~Has(params, "addedAt>>")

----------------------------------------------------------------------------
\* C28: the content-rating entries "g" and "r" are matched as bare substrings
\* and scanned first, so the Extractor returns contentRating G for every text
\* that contains the letter g, and R for every text that contains r but no g;
\* it never returns PG, PG-13, TV-G or TV-PG, and "pg-13 movies" yields G.
C28_BareLettersShadow ==
  ExtractorReturned =>
    LET text == LowerQuery
    IN  /\ includes(text, <<"g">>) => extracted["contentRating"] = Some(<<"G">>)
        /\ (includes(text, <<"r">>) /\ ~includes(text, <<"g">>)) =>
             extracted["contentRating"] = Some(<<"R">>)
        /\ extracted["contentRating"] \notin
             {Some(<<"P", "G">>), Some(<<"P", "G", "-", "1", "3">>), Some(<<"T", "V", "-", "G">>), Some(<<"T", "V", "-", "P", "G">>)}
        /\ query = <<"p", "g", "-", "1", "3", " ", "m", "o", "v", "i", "e", "s">> => extracted["contentRating"] = Some(<<"G">>)

C28_Witness ==
  /\ ExtractorReturned
  /\ query = <<"p", "g", "-", "1", "3", " ", "m", "o", "v", "i", "e", "s">>
  /\ extracted["contentRating"] = Some(<<"G">>)

----------------------------------------------------------------------------
\* the positions of text s at which the word w and four digits stand
PhrasesOf(s, w) == {j \in 1..Len(s) : WordYearAt(s, j, w)}

\* C29: when a text contains both "from YYYY" and "after ZZZZ" (the first of
\* each), the Extractor's minYear is ZZZZ+1: the "after" rule overwrites the
\* value set by the "from" rule whatever the order of the two phrases in the
\* text, and the bare-year rule stays suppressed by the "from" match.
C29_AfterOverwritesFrom ==
  ExtractorReturned =>
    LET text == LowerQuery
        from == PhrasesOf(text, <<"f", "r", "o", "m">>)
        after == PhrasesOf(text, <<"a", "f", "t", "e", "r">>)
    IN  (from # {} /\ after # {}) =>
          /\ extracted["minYear"] =
               Some(YearAfterWord(text, Min(after), <<"a", "f", "t", "e", "r">>) + 1)
          /\ extracted["year"] = Undefined

C29_Witness ==
  /\ ExtractorReturned
  /\ query = <<"a", "f", "t", "e", "r", " ", "1", "9", "9", "0", " ", "f", "r", "o", "m", " ", "1", "9", "8", "5">>
  /\ extracted["minYear"] = Some(1991)
  /\ extracted["year"] = Undefined

----------------------------------------------------------------------------
\* smart_search compiled a text that has the word "newest" and in which the
\* newest-first sort was selected
NewestSelected ==
  /\ SmartCompiled
  /\ extracted["sort"] = Some("addedAt")
  /\ includes(LowerQuery, <<"n", "e", "w", "e", "s", "t">>)

\* C30: every free-text query that selects the newest-first sort through the
\* word "newest" also gets a recency filter: the Extractor sets addedWithin
\* (7 when no day/week/month phrase is matched) together with sort = addedAt,
\* and the compiled query always carries an addedAt>> bound alongside
\* sort = "addedAt:desc".
C30_NewestAlsoRecent ==
  NewestSelected =>
    /\ extracted["addedWithin"] # Undefined
    /\ recentMatch(LowerQuery) = Undefined => extracted["addedWithin"] = Some(7)
    /\ Has(params, "addedAt>>")
    /\ params["sort"] = "addedAt:desc"

\* C30, narrowed: such a query always has addedWithin set (7 when no
\* day/week/month phrase is matched) and compiles to sort = "addedAt:desc";
\* it carries an addedAt>> bound unless the matched phrase has the count 0,
\* which sets addedWithin = 0 and compiles to no addedAt>> key.
C30_NewestAlsoRecentNonZero ==
  NewestSelected =>
    /\ extracted["addedWithin"] # Undefined
    /\ recentMatch(LowerQuery) = Undefined => extracted["addedWithin"] = Some(7)
    /\ Has(params, "addedAt>>") <=> extracted["addedWithin"] # Some(0)
    /\ Has(params, "addedAt>>") =>
         params["addedAt>>"] = clock[1].sec - extracted["addedWithin"][1] * 86400
    /\ params["sort"] = "addedAt:desc"

C30_Witness ==
  /\ NewestSelected
  /\ query = <<"n", "e", "w", "e", "s", "t">>
  /\ extracted["addedWithin"] = Some(7)
  /\ Has(params, "addedAt>>")
  /\ params["sort"] = "addedAt:desc"

====
